---- MODULE Spec2Model ----
(***************************************************************************)
(* State-machine model of two nodes of node-red-contrib-utils:             *)
(*   rp-array-out  (src/nodes/io/array-out.js)   the ordered collector     *)
(*   rp-queue      (src/unnamed/part_004:189-395) the rate-limited queue   *)
(*                                                                         *)
(* One behaviour follows one node instance; `kind` says which node it is.  *)
(* A handler (input, close, timer callback) is one atomic action: Node.js  *)
(* runs it to completion and every Date.now() it reads is the value `now`. *)
(* The host's timer service is modelled beside the node: a timer set with  *)
(* setTimeout stays pending until it is cleared or fires, and fires at or  *)
(* after its due time.                                                     *)
(*                                                                         *)
(* Collector time is counted in seconds, queue time in milliseconds.       *)
(* msg.meta.arrayPosition is held in half units (pos = 2 * position), so   *)
(* that a number that is not an integer (0.5 is pos 1) can be an input.    *)
(***************************************************************************)
EXTENDS Integers, Sequences, FiniteSets, TLC

VARIABLES
    kind,                 \* "array-out" or "queue": the node this instance is
    now,                  \* Date.now()
    closed,               \* the node's 'close' handler has run
    received,             \* number of input messages delivered so far
    lastInput,            \* meta.arrayPosition of the message delivered last
    \* ---- rp-array-out: configuration
    config,               \* config.expectedCount and config.timeout, as written
    configErrors,         \* number of node.error calls about the configuration
    expectedCount,        \* node.expectedCount
    timeout,              \* node.timeout
    placeThrows,          \* placing the result at the output location throws
    \* ---- rp-array-out: node state
    collection,           \* node.collection
    timeoutHandle,        \* node.timeoutHandle
    isCollecting,         \* node.isCollecting
    collectionStartTime,  \* node.collectionStartTime
    status,               \* last node.status(...) of the collector
    \* ---- rp-array-out: host and history
    timers,               \* pending setTimeout(handleTimeout, ...) timers
    statusTimers,         \* due times of pending setTimeout(setStatusReady, ...)
    cycle,                \* number of collection cycles started
    accepted,             \* position -> data stored last, in the cycle started last
    stored,               \* number of messages stored in the cycle started last
    sent,                 \* log of node.send calls of the collector
    \* ---- rp-queue: configuration
    maxQueueSize,         \* node.maxQueueSize
    intervalMs,           \* node.intervalMs
    timeoutMs,            \* node.timeoutMs
    mode,                 \* node.mode
    \* ---- rp-queue: node state, host and history
    state,                \* state.queue, state.timer, state.lastSent
    pendingSends,         \* pending setTimeout(sendFn, ...) timers
    queueSent,            \* log of node.send calls of the queue
    \* ---- rp-array-in
    tagger,               \* configuration, context store, status and last event
    \* ---- rp-array-select
    selector,             \* configuration, status, pending resets and last event
    \* ---- rp-block-detect
    detector,             \* settings, counters, status and the samples taken
    \* ---- rp-save-file
    saver                 \* the folder, and the handlers in flight

cvars == <<expectedCount, timeout, placeThrows, config, configErrors,
           collection, timeoutHandle,
           isCollecting, collectionStartTime, status, timers, statusTimers,
           cycle, accepted, stored, sent>>
qvars == <<maxQueueSize, intervalMs, timeoutMs, mode, state, pendingSends, queueSent>>
hvars == <<kind, now, closed, received, lastInput>>
nvars == <<tagger, selector, detector, saver>>
vars == <<hvars, cvars, qvars, nvars>>

----------------------------------------------------------------------------
\* Bounds of the model
MaxExpected == 2
MaxTimeout == 2
MaxMsgs == 3
MaxQueueMsgs == 4
MaxTime == 3
MaxQueueSize == 2
MaxInterval == 2
MaxQueueTimeout == 2
MaxSelLen == 4
MaxArrayLen == 3
MaxSelectorMsgs == 2
MaxSamples == 4
MaxSaves == 2
MaxLiveMsgs == 3

\* JavaScript null: no handle, no start time, the placeholder of a sequence
null == 0
\* msg.meta.arrayData === undefined
undefined == -1

\* setTimeout(setStatusReady, 2000) and setTimeout(setStatusReady, 3000)
ReadyDelayComplete == 2
ReadyDelayTimeout == 3

----------------------------------------------------------------------------
\* Helpers

Min(S) == CHOOSE x \in S : \A y \in S : x <= y

\* the handle setTimeout returns: one no pending timer and no held handle has
FreshHandle(pending, held) ==
    Min({i \in 1..(Cardinality(pending) + 2) :
            i # held /\ \A t \in pending : t.id # i})

\* position i of 0..expectedCount-1 as a property key
Key(i) == 2 * i

\* parseInt(k) of a property key
ParseIntKey(k) == k \div 2

RECURSIVE SortedKeys(_)
\* Object.keys(node.collection).map(k => parseInt(k)).sort((a, b) => a - b)
SortedKeys(K) ==
    IF K = {} THEN <<>>
    ELSE LET k == Min(K) IN <<ParseIntKey(k)>> \o SortedKeys(K \ {k})

\* mutant of BuildResult: index i reads slot i + 1
BuildResultShifted(col, n) ==
    [i \in 1..n |-> IF Key(i) \in DOMAIN col THEN col[Key(i)] ELSE null]

\* Array.from({length: expectedCount}, (_, i) => hasOwnProperty(i) ? collection[i] : null)
BuildResult(col, n) ==
    [i \in 1..n |-> IF Key(i - 1) \in DOMAIN col THEN col[Key(i - 1)] ELSE null]

\* the positions i < expectedCount with !node.collection.hasOwnProperty(i)
RECURSIVE MissingFrom(_, _, _)
MissingFrom(col, i, n) ==
    IF i >= n THEN <<>>
    ELSE (IF Key(i) \in DOMAIN col THEN <<>> ELSE <<i>>) \o MissingFrom(col, i + 1, n)

\* mutant of MissingPositions: the loop starts at 1
MissingPositionsFromOne(col, n) == MissingFrom(col, 1, n)

MissingPositions(col, n) == MissingFrom(col, 0, n)

EmptyCollection == [k \in {} |-> null]

\* msg.meta.arrayData when defined, else msg.payload
ExtractData(msg) == IF msg.arrayData # undefined THEN msg.arrayData ELSE msg.payload

\* the values of msg.meta.arrayPosition tried: the integers -1..MaxExpected and 0.5
Positions == {Key(i) : i \in (-1)..MaxExpected} \cup {1}

\* the input messages: the serial number n of the message is its payload; one
\* message stands for those whose meta.arrayPosition is missing or not a number
Messages(n) ==
    [typed : {TRUE}, pos : Positions, arrayData : {undefined, null, n}, payload : {n}]
    \cup [typed : {FALSE}, pos : {0}, arrayData : {n}, payload : {n}]

\* mutant of IsRejected: the position expectedCount is let through
IsRejectedAbove(msg, n) == ~msg.typed \/ msg.pos < 0 \/ msg.pos > 2 * n

\* 4.1 and 4.2: no numeric meta.arrayPosition, or position < 0 || position >= n
IsRejected(msg, n) == ~msg.typed \/ msg.pos < 0 \/ msg.pos >= 2 * n

----------------------------------------------------------------------------
\* Configuration values and parseInt

\* A configuration value is the string String(value) gives, a sequence of
\* characters; a missing value is the string "undefined".
DigitChars == <<"0", "1", "2", "3", "4", "5", "6", "7", "8", "9">>

IsDigit(c) == \E d \in 1..10 : DigitChars[d] = c

DigitOf(c) == (CHOOSE d \in 1..10 : DigitChars[d] = c) - 1

\* a string of digits, as \d+ matches it, and a string of zeros
AllDigits(str) == str # <<>> /\ \A i \in 1..Len(str) : IsDigit(str[i])
AllZeros(str) == str # <<>> /\ \A i \in 1..Len(str) : str[i] = "0"

Missing == <<"u", "n", "d", "e", "f", "i", "n", "e", "d">>

\* parseInt skips leading white space
RECURSIVE SkipSpaces(_)
SkipSpaces(str) ==
    IF str # <<>> /\ Head(str) = " " THEN SkipSpaces(Tail(str)) ELSE str

\* the longest prefix of decimal digits of str, read after the digits that
\* gave acc: seen says whether a digit was read
RECURSIVE ReadDigits(_, _, _)
ReadDigits(str, acc, seen) ==
    IF str # <<>> /\ IsDigit(Head(str))
    THEN ReadDigits(Tail(str), 10 * acc + DigitOf(Head(str)), TRUE)
    ELSE [nan |-> ~seen, val |-> acc]

\* parseInt(value): NaN when no digit follows the optional sign
ParseInt(value) ==
    LET str == SkipSpaces(value)
        negative == str # <<>> /\ Head(str) = "-"
        signed == str # <<>> /\ (Head(str) = "-" \/ Head(str) = "+")
        read == ReadDigits(IF signed THEN Tail(str) ELSE str, 0, FALSE)
    IN  IF read.nan THEN [nan |-> TRUE, val |-> 0]
        ELSE [nan |-> FALSE, val |-> IF negative THEN 0 - read.val ELSE read.val]

\* the configuration values tried, for either field
ConfigValues ==
    { Missing, <<>>, <<"a", "b", "c">>, <<"0">>, <<"-", "3">>, <<"1">>, <<"2">>,
      <<"3">>, <<"2", ".", "7">>, <<" ", "2">>, <<"2", "a">>, <<"a", "2">>,
      <<"5", "0">>, <<"9", "9">>, <<"1", "0", "0">>, <<"5", "0", "0", "0">> }

\* node.timeout = parseInt(config.timeout) || 5000
DefaultTimeout == 5000

\* node.expectedCount = 2; // sensible default
DefaultExpectedCount == 2

\* mutant of IsValidCount: zero is let through
IsValidCountFromZero(parsed) == ~parsed.nan /\ parsed.val >= 0

\* Number.isInteger(node.expectedCount) && node.expectedCount >= 1
IsValidCount(parsed) == ~parsed.nan /\ parsed.val >= 1

\* node.expectedCount after the constructor has run
NodeExpectedCount(value) ==
    IF IsValidCount(ParseInt(value)) THEN ParseInt(value).val ELSE DefaultExpectedCount

\* node.timeout after the constructor has run, in ms
NodeTimeout(value) ==
    IF ParseInt(value).nan \/ ParseInt(value).val = 0
    THEN DefaultTimeout
    ELSE ParseInt(value).val

\* the constructor, for the configuration in config; the collector's clock
\* counts seconds, and so does the variable timeout
Construct ==
    /\ expectedCount = NodeExpectedCount(config.expectedCount)
    /\ configErrors = (IF IsValidCount(ParseInt(config.expectedCount)) THEN 0 ELSE 1)
    /\ timeout = NodeTimeout(config.timeout) \div 1000

----------------------------------------------------------------------------
\* rp-array-out

CollectorInit ==
    /\ collection = EmptyCollection
    /\ timeoutHandle = null
    /\ isCollecting = FALSE
    /\ collectionStartTime = null
    /\ status = "ready"
    /\ timers = {}
    /\ statusTimers = {}
    /\ cycle = 0
    /\ accepted = EmptyCollection
    /\ stored = 0
    /\ sent = <<>>

\* mutant of Store: an occupied position keeps its value
StoreFirstWins(col, pos, data) ==
    [k \in DOMAIN col \cup {pos} |-> IF k \in DOMAIN col THEN col[k] ELSE data]

\* node.collection[position] = data
Store(col, pos, data) ==
    [k \in DOMAIN col \cup {pos} |-> IF k = pos THEN data ELSE col[k]]

\* mutant of ArmedTimers: the delay is left out
ArmedTimersNoDelay(pending, h) == pending \cup {[id |-> h, due |-> now]}

\* setTimeout(handleTimeout, node.timeout), returning handle h
ArmedTimers(pending, h) == pending \cup {[id |-> h, due |-> now + timeout]}

\* mutant of ClearedTimers: the timer is not cleared
ClearedTimersNone(pending, held) == pending

\* clearTimeout(node.timeoutHandle) when a handle is held
ClearedTimers(pending, held) == {t \in pending : t.id # held}

\* mutant of ResetCollection: the start time of the cycle is left behind
ResetCollectionKeepsStart(pending) ==
    /\ timers' = (IF timeoutHandle # null
                  THEN ClearedTimers(pending, timeoutHandle) ELSE pending)
    /\ timeoutHandle' = null
    /\ collection' = EmptyCollection
    /\ isCollecting' = FALSE
    /\ UNCHANGED collectionStartTime

\* resetCollection(): the four assignments it leaves behind
ResetCollection(pending) ==
    /\ timers' = (IF timeoutHandle # null
                  THEN ClearedTimers(pending, timeoutHandle) ELSE pending)
    /\ timeoutHandle' = null
    /\ collection' = EmptyCollection
    /\ isCollecting' = FALSE
    /\ collectionStartTime' = null

\* node.on('input'): a message without a numeric position, or out of range
InputRejected(msg) ==
    /\ IsRejected(msg, expectedCount)
    /\ UNCHANGED cvars

\* mutant of StartsCollection: every accepted message starts a collection
StartsCollectionAlways(collecting) == TRUE

\* 4.4: if (!node.isCollecting)
StartsCollection(collecting) == ~collecting

\* node.on('input'): 4.3 to 4.7, and the catch
InputAccepted(msg) ==
    /\ ~IsRejected(msg, expectedCount)
    /\ LET data == ExtractData(msg)
           start == StartsCollection(isCollecting)
           h == FreshHandle(timers, timeoutHandle)
           pending == IF start THEN ArmedTimers(timers, h) ELSE timers
           held == IF start THEN h ELSE timeoutHandle
           startTime == IF start THEN now ELSE collectionStartTime
           cyc == IF start THEN cycle + 1 ELSE cycle
           col0 == IF start THEN EmptyCollection ELSE collection
           col == Store(col0, msg.pos, data)
           collected == Cardinality(DOMAIN col)
       IN  /\ cycle' = cyc
           /\ accepted' = LET old == IF start THEN EmptyCollection ELSE accepted
                          IN  [k \in DOMAIN old \cup {msg.pos} |->
                                  IF k = msg.pos THEN data ELSE old[k]]
           /\ stored' = (IF start THEN 1 ELSE stored + 1)
           /\ IF collected = expectedCount
              THEN \* assembleAndOutput(msg)
                   /\ timers' = ClearedTimers(pending, held)
                   /\ timeoutHandle' = null
                   /\ collection' = EmptyCollection
                   /\ isCollecting' = FALSE
                   /\ collectionStartTime' = null
                   /\ IF placeThrows
                      THEN \* catch (err): status Error, resetCollection()
                           /\ status' = "error"
                           /\ UNCHANGED <<sent, statusTimers>>
                      ELSE /\ status' = "complete"
                           /\ sent' = Append(sent,
                                  [out |-> 1, cycle |-> cyc,
                                   seq |-> BuildResult(col, expectedCount)])
                           /\ statusTimers' = statusTimers \cup {now + ReadyDelayComplete}
              ELSE /\ timers' = pending
                   /\ timeoutHandle' = held
                   /\ collection' = col
                   /\ isCollecting' = TRUE
                   /\ collectionStartTime' = startTime
                   /\ status' = "collecting"
                   /\ UNCHANGED <<sent, statusTimers>>
    /\ UNCHANGED <<expectedCount, timeout, placeThrows, config, configErrors>>

Input ==
    /\ kind = "array-out"
    /\ ~closed
    /\ received < MaxMsgs
    /\ \E msg \in Messages(received + 1) :
        /\ InputRejected(msg) \/ InputAccepted(msg)
        /\ lastInput' = [typed |-> msg.typed, pos |-> msg.pos]
    /\ received' = received + 1
    /\ UNCHANGED <<kind, now, closed>>
    /\ UNCHANGED <<qvars, nvars>>

\* the timer service runs handleTimeout
HandleTimeout ==
    /\ kind = "array-out"
    /\ \E t \in timers :
        /\ now >= t.due
        /\ IF placeThrows
           THEN \* the exception leaves the callback before node.send
                /\ timers' = timers \ {t}
                /\ UNCHANGED <<collection, timeoutHandle, isCollecting,
                               collectionStartTime, status, statusTimers, sent>>
           ELSE /\ sent' = Append(sent,
                      [out |-> 2, cycle |-> cycle,
                       seq |-> BuildResult(collection, expectedCount),
                       meta |-> [timeout |-> TRUE,
                                 missingPositions |->
                                     MissingPositions(collection, expectedCount),
                                 collectedPositions |-> SortedKeys(DOMAIN collection),
                                 expectedCount |-> expectedCount,
                                 collectedCount |-> Len(SortedKeys(DOMAIN collection)),
                                 elapsed |-> now - collectionStartTime]])
                /\ status' = "timeout"
                /\ ResetCollection(timers \ {t})
                /\ statusTimers' = statusTimers \cup {now + ReadyDelayTimeout}
    /\ UNCHANGED <<expectedCount, timeout, placeThrows, config, configErrors,
                   cycle, accepted, stored>>
    /\ UNCHANGED <<hvars, qvars, nvars>>

\* the timer service runs setStatusReady
StatusReady ==
    /\ kind = "array-out"
    /\ \E d \in statusTimers :
        /\ now >= d
        /\ statusTimers' = statusTimers \ {d}
    /\ status' = "ready"
    /\ UNCHANGED <<expectedCount, timeout, placeThrows, config, configErrors,
                   collection, timeoutHandle,
                   isCollecting, collectionStartTime, timers, cycle, accepted,
                   stored, sent>>
    /\ UNCHANGED <<hvars, qvars, nvars>>

\* node.on('close')
Close ==
    /\ kind = "array-out"
    /\ ~closed
    /\ closed' = TRUE
    /\ ResetCollection(timers)
    /\ status' = "cleared"
    /\ UNCHANGED <<expectedCount, timeout, placeThrows, config, configErrors,
                   statusTimers, cycle,
                   accepted, stored, sent>>
    /\ UNCHANGED <<kind, now, received, lastInput>>
    /\ UNCHANGED <<qvars, nvars>>

----------------------------------------------------------------------------
\* rp-queue

\* the values of config.mode tried: the three the editor offers, an unknown
\* word and a missing one
ConfigModes == {"queue-size", "timeout", "legacy", "both", "undefined"}

\* node.mode: 'timeout' and 'queue-size' are kept, anything else is 'legacy'
ParseMode(parsedMode) ==
    IF parsedMode = "timeout" \/ parsedMode = "queue-size" THEN parsedMode ELSE "legacy"

\* mutant of useQueueLimit: only the mode 'queue-size' checks the capacity
useQueueLimitExplicit == mode = "queue-size"

useQueueLimit == mode # "timeout"

\* mutant of useTimeout: every mode checks the age
useTimeoutAlways == TRUE

useTimeout == mode # "queue-size"

QueueInit ==
    /\ state = [queue |-> <<>>, timer |-> null, lastSent |-> 0]
    /\ pendingSends = {}
    /\ queueSent = <<>>

\* A handler works on q = [state, pending, sent]: the node's state, the host's
\* pending timers and the messages sent, and leaves the three behind.

\* mutant of ClearTimer: the handle is dropped, the timer is not cancelled
ClearTimerHandleOnly(q) == [q EXCEPT !.state.timer = null]

\* clearTimer()
ClearTimer(q) ==
    IF q.state.timer # null
    THEN [q EXCEPT !.pending = {t \in q.pending : t.id # q.state.timer},
                   !.state.timer = null]
    ELSE q

\* mutant of IsExpired: an entry expires only after the timeout
IsExpiredLate(entry) == now - entry.enqueuedAt > timeoutMs

\* now - oldest.enqueuedAt >= node.timeoutMs
IsExpired(entry) == now - entry.enqueuedAt >= timeoutMs

\* the while loop of pruneExpired(): how many entries it shifts off the front
RECURSIVE ExpiredCount(_)
ExpiredCount(queue) ==
    IF queue = <<>> THEN 0
    ELSE IF IsExpired(Head(queue))
         THEN 1 + ExpiredCount(Tail(queue))
         ELSE 0

\* the message pruneExpired() sends on output 2 for an expired entry
TimeoutDrop(entry) ==
    [out |-> 2, msg |-> entry.msg, at |-> now,
     meta |-> [queueDropped |-> TRUE, queueDropReason |-> "timeout",
               queuedDuration |-> now - entry.enqueuedAt,
               queueTimeout |-> timeoutMs]]

\* mutant of PruneExpired: an eviction counts as an emission
PruneExpiredStamps(q) ==
    IF ~useTimeout \/ timeoutMs <= 0 \/ Len(q.state.queue) = 0
    THEN q
    ELSE LET n == ExpiredCount(q.state.queue)
         IN  [q EXCEPT !.state.queue = SubSeq(@, n + 1, Len(@)),
                       !.state.lastSent = IF n > 0 THEN now ELSE @,
                       !.sent = @ \o [i \in 1..n |-> TimeoutDrop(q.state.queue[i])]]

\* mutant of PruneExpired: the expired entries are removed and sent nowhere
PruneExpiredSilent(q) ==
    IF ~useTimeout \/ timeoutMs <= 0 \/ Len(q.state.queue) = 0
    THEN q
    ELSE LET n == ExpiredCount(q.state.queue)
         IN  [q EXCEPT !.state.queue = SubSeq(@, n + 1, Len(@))]

\* pruneExpired()
PruneExpired(q) ==
    IF ~useTimeout \/ timeoutMs <= 0 \/ Len(q.state.queue) = 0
    THEN q
    ELSE LET n == ExpiredCount(q.state.queue)
         IN  [q EXCEPT !.state.queue = SubSeq(@, n + 1, Len(@)),
                       !.sent = @ \o [i \in 1..n |-> TimeoutDrop(q.state.queue[i])]]

\* mutant of MustWait: the interval is not looked at
MustWaitNever(lastSent) == FALSE

\* mutant of MustWait: an interval of 0 still holds back a message that comes
\* in the instant of the last emission
MustWaitInclusive(lastSent) == lastSent # 0 /\ now - lastSent <= intervalMs

\* state.lastSent ? now - state.lastSent : Infinity, compared with the interval
MustWait(lastSent) ==
    intervalMs > 0 /\ lastSent # 0 /\ now - lastSent < intervalMs

\* mutant of ScheduleNextSend: no timer is armed for the entries left
ScheduleNextSendIdle(q0) == PruneExpired(ClearTimer(q0))

\* scheduleNextSend()
ScheduleNextSend(q0) ==
    LET q == PruneExpired(ClearTimer(q0))
    IN  IF Len(q.state.queue) = 0
        THEN q
        ELSE LET delay == IF MustWait(q.state.lastSent)
                          THEN intervalMs - (now - q.state.lastSent)
                          ELSE 0
                 h == FreshHandle(q.pending, q.state.timer)
             IN  [q EXCEPT !.pending = @ \cup {[id |-> h, due |-> now + delay]},
                           !.state.timer = h]

\* mutant of Shift: the newest entry is taken
Pop(queue) ==
    [entry |-> queue[Len(queue)], rest |-> SubSeq(queue, 1, Len(queue) - 1)]

\* state.queue.shift(): the entry taken and the queue left
Shift(queue) == [entry |-> Head(queue), rest |-> Tail(queue)]

\* mutant of AttemptSend: the queue is not pruned before the emission
AttemptSendNoPrune(q0) ==
    LET q == q0
    IN  IF Len(q.state.queue) = 0
        THEN q
        ELSE IF MustWait(q.state.lastSent)
        THEN ScheduleNextSend(q)
        ELSE LET taken == Shift(q.state.queue)
             IN  ScheduleNextSend(
                     [q EXCEPT !.state.queue = taken.rest,
                               !.state.lastSent = now,
                               !.sent = Append(@, [out |-> 1, msg |-> taken.entry.msg,
                                                  at |-> now])])

\* attemptSend()
AttemptSend(q0) ==
    LET q == PruneExpired(q0)
    IN  IF Len(q.state.queue) = 0
        THEN q
        ELSE IF MustWait(q.state.lastSent)
        THEN ScheduleNextSend(q)
        ELSE LET taken == Shift(q.state.queue)
             IN  ScheduleNextSend(
                     [q EXCEPT !.state.queue = taken.rest,
                               !.state.lastSent = now,
                               !.sent = Append(@, [out |-> 1, msg |-> taken.entry.msg,
                                                  at |-> now])])

\* mutant of OverflowDrop: the message that arrives is counted in the size
OverflowDropCountsIncoming(n, queue) ==
    [out |-> 2, msg |-> n, at |-> now,
     meta |-> [queueDropped |-> TRUE, queueDropReason |-> "overflow",
               queueSize |-> Len(queue) + 1, queueMaxSize |-> maxQueueSize]]

\* mutant of OverflowDrop: the reason of the other drop
OverflowDropAsTimeout(n, queue) ==
    [out |-> 2, msg |-> n, at |-> now,
     meta |-> [queueDropped |-> TRUE, queueDropReason |-> "timeout",
               queueSize |-> Len(queue), queueMaxSize |-> maxQueueSize]]

\* the message the input handler sends on output 2 at a full queue
OverflowDrop(n, queue) ==
    [out |-> 2, msg |-> n, at |-> now,
     meta |-> [queueDropped |-> TRUE, queueDropReason |-> "overflow",
               queueSize |-> Len(queue), queueMaxSize |-> maxQueueSize]]

\* mutant of OnInput: a full queue gives up its oldest entry for the new one
OnInputEvictOldest(q0, n) ==
    LET q == PruneExpired(q0)
        full == useQueueLimit /\ maxQueueSize > 0 /\ Len(q.state.queue) >= maxQueueSize
        room == IF full
                THEN [q EXCEPT !.state.queue = Tail(@),
                               !.sent = Append(@, OverflowDrop(Head(q.state.queue).msg,
                                                               q.state.queue))]
                ELSE q
    IN  AttemptSend([room EXCEPT !.state.queue =
                                    Append(@, [msg |-> n, enqueuedAt |-> now])])

\* mutant of OnInput: the capacity is checked before the queue is pruned
OnInputCheckFirst(q0, n) ==
    IF useQueueLimit /\ maxQueueSize > 0 /\ Len(q0.state.queue) >= maxQueueSize
    THEN LET q == PruneExpired(q0)
         IN  [q EXCEPT !.sent = Append(@, OverflowDrop(n, q.state.queue))]
    ELSE AttemptSend([PruneExpired(q0) EXCEPT !.state.queue =
                         Append(@, [msg |-> n, enqueuedAt |-> now])])

\* node.on('input') of the queue, for the message with serial number n
OnInput(q0, n) ==
    LET q == PruneExpired(q0)
    IN  IF useQueueLimit /\ maxQueueSize > 0 /\ Len(q.state.queue) >= maxQueueSize
        THEN [q EXCEPT !.sent = Append(@, OverflowDrop(n, q.state.queue))]
        ELSE AttemptSend([q EXCEPT !.state.queue =
                                      Append(@, [msg |-> n, enqueuedAt |-> now])])

Current == [state |-> state, pending |-> pendingSends, sent |-> queueSent]

Becomes(q) ==
    /\ state' = q.state
    /\ pendingSends' = q.pending
    /\ queueSent' = q.sent
    /\ UNCHANGED <<maxQueueSize, intervalMs, timeoutMs, mode>>

QueueInput ==
    /\ kind = "queue"
    /\ ~closed
    /\ received < MaxQueueMsgs
    /\ received' = received + 1
    /\ Becomes(OnInput(Current, received + 1))
    /\ UNCHANGED <<kind, now, closed, lastInput>>
    /\ UNCHANGED <<cvars, nvars>>

\* the timer service runs sendFn
SendFn ==
    /\ kind = "queue"
    /\ \E t \in pendingSends :
        /\ now >= t.due
        /\ Becomes(AttemptSend([Current EXCEPT !.pending = @ \ {t},
                                               !.state.timer = null]))
    /\ UNCHANGED <<hvars, cvars, nvars>>

\* node.on('close') of the queue
QueueClose ==
    /\ kind = "queue"
    /\ ~closed
    /\ closed' = TRUE
    /\ Becomes([ClearTimer(Current) EXCEPT !.state.queue = <<>>])
    /\ UNCHANGED <<kind, now, received, lastInput>>
    /\ UNCHANGED <<cvars, nvars>>

----------------------------------------------------------------------------
\* rp-array-in

\* the values of a position tried, as written in the configuration or as
\* String(value) of what a lookup finds
PositionValues ==
    { <<>>, <<" ">>, <<"0">>, <<"2">>, <<"-", "1">>, <<"1", ".", "5">>,
      <<"a">>, <<"7", "a">> }

\* node.arrayPositionType, node.arrayPositionValue, node.inputPathType and
\* node.inputPath; for a lookup type the position value is a property path
TaggerConfigs ==
    [arrayPositionType : {"num", "msg", "flow"},
     arrayPositionValue : PositionValues \cup {<<"p">>},
     inputPathType : {"msg", "flow", "global"},
     inputPath : {"payload", "data", " payload "}]

\* the input messages of the tagger: msg.payload, msg.data, and what the
\* lookup of the position path finds (found = FALSE: the lookup throws)
TaggerMessages ==
    [payload : {undefined, null, 1}, data : {undefined, 2},
     position : PositionValues \cup {Missing}, found : {TRUE}]
    \cup [payload : {undefined, null, 1}, data : {undefined, 2},
          position : {Missing}, found : {FALSE}]

\* CONSTANTS.DEFAULT_ARRAY_POSITION
DefaultArrayPosition == 0

\* String(value).trim() === ''
IsBlank(value) == \A i \in 1..Len(value) : value[i] = " "

\* isNaN(numericValue) || numericValue < 0
IsPositionError(parsed) == parsed.nan \/ parsed.val < 0

\* utils.resolveArrayPosition(node, type, value, msg)
ResolveArrayPosition(type, value, msg) ==
    IF IsBlank(value)
    THEN [throws |-> FALSE, val |-> DefaultArrayPosition]
    ELSE IF type # "num" /\ ~msg.found
    THEN [throws |-> TRUE, val |-> 0]
    ELSE LET resolvedValue == IF type # "num" THEN msg.position ELSE value
             numericValue == ParseInt(resolvedValue)
         IN  IF IsPositionError(numericValue)
             THEN [throws |-> TRUE, val |-> 0]
             ELSE [throws |-> FALSE, val |-> numericValue.val]

\* the read of the input path: RED.util.getMessageProperty rejects a path
\* with a space in it, a context store gives what it holds
GetArrayData(cfg, context, msg) ==
    IF cfg.inputPathType = "msg"
    THEN IF cfg.inputPath = "payload" THEN [throws |-> FALSE, val |-> msg.payload]
         ELSE IF cfg.inputPath = "data" THEN [throws |-> FALSE, val |-> msg.data]
         ELSE [throws |-> TRUE, val |-> undefined]
    ELSE [throws |-> FALSE, val |-> context]

\* node.inputPath.trim()
TrimPath(path) == IF path = " payload " THEN "payload" ELSE path

\* mutant of ShouldMirrorPayload: the scope is not looked at
ShouldMirrorAnyScope(cfg) == TrimPath(cfg.inputPath) = "payload"

\* node.inputPathType === 'msg' && normalizedPath === 'payload'
ShouldMirrorPayload(cfg) ==
    cfg.inputPathType = "msg" /\ TrimPath(cfg.inputPath) = "payload"

\* node.on('input') of the tagger: what it leaves for the message msg
TaggerHandle(t, msg) ==
    LET cfg == t.config
        resolved == ResolveArrayPosition(cfg.arrayPositionType,
                                         cfg.arrayPositionValue, msg)
        read == GetArrayData(cfg, t.context, msg)
        arrayData == IF read.val = undefined THEN null ELSE read.val
    IN  IF resolved.throws
        THEN [t EXCEPT !.status = "invalid position",
                       !.last = [in |-> msg, sent |-> <<>>, warned |-> TRUE,
                                 failed |-> FALSE]]
        ELSE IF read.throws
        THEN [t EXCEPT !.status = "error",
                       !.last = [in |-> msg, sent |-> <<>>, warned |-> FALSE,
                                 failed |-> TRUE]]
        ELSE [t EXCEPT !.status = "position",
                       !.last = [in |-> msg,
                                 sent |-> <<[payload |-> IF ShouldMirrorPayload(cfg)
                                                         THEN arrayData
                                                         ELSE msg.payload,
                                             data |-> msg.data,
                                             meta |-> [arrayPosition |-> resolved.val,
                                                       arrayData |-> arrayData]]>>,
                                 warned |-> read.val = undefined,
                                 failed |-> FALSE]]

\* no message handled yet
NoEvent ==
    [in |-> [payload |-> undefined, data |-> undefined, position |-> Missing,
             found |-> TRUE],
     sent |-> <<>>, warned |-> FALSE, failed |-> FALSE]

\* the tagger the other nodes' behaviours do not use
NoTagger ==
    [config |-> [arrayPositionType |-> "num", arrayPositionValue |-> <<"0">>,
                 inputPathType |-> "msg", inputPath |-> "payload"],
     context |-> undefined, status |-> "position", handled |-> FALSE, last |-> NoEvent]

TaggerInit ==
    /\ tagger \in [config : TaggerConfigs, context : {undefined, 3},
                   status : {"position"}, handled : {FALSE}, last : {NoEvent}]

TaggerInput ==
    /\ kind = "array-in"
    /\ ~closed
    /\ \E msg \in TaggerMessages :
          tagger' = [TaggerHandle(tagger, msg) EXCEPT !.handled = TRUE]
    /\ UNCHANGED <<hvars, cvars, qvars, selector, detector, saver>>

\* node.on('close') of the tagger
TaggerClose ==
    /\ kind = "array-in"
    /\ ~closed
    /\ closed' = TRUE
    /\ tagger' = [tagger EXCEPT !.status = "cleared"]
    /\ UNCHANGED <<kind, now, received, lastInput>>
    /\ UNCHANGED <<cvars, qvars, selector, detector, saver>>

----------------------------------------------------------------------------
\* rp-array-select

\* the characters a selection is written with
SelChars == {"-", "0", "1", "2", ":", ","}

RECURSIVE StringsOver(_, _)
\* the strings of at most n characters of chars
StringsOver(chars, n) ==
    IF n = 0 THEN {<<>>}
    ELSE LET shorter == StringsOver(chars, n - 1)
         IN  shorter \cup {Append(str, c) : str \in shorter, c \in chars}

\* the values of config.selection tried
Selections == StringsOver(SelChars, MaxSelLen)

\* sel.includes(c)
Includes(str, c) == \E i \in 1..Len(str) : str[i] = c

RECURSIVE Split(_, _)
\* str.split(c)
Split(str, c) ==
    IF ~Includes(str, c) THEN <<str>>
    ELSE LET i == CHOOSE i \in 1..Len(str) :
                     str[i] = c /\ \A j \in 1..(i - 1) : str[j] # c
         IN  <<SubSeq(str, 1, i - 1)>> \o Split(SubSeq(str, i + 1, Len(str)), c)

\* /^-?\d+$/.test(sel)
IsSingleIndex(sel) ==
    AllDigits(sel) \/ (sel # <<>> /\ Head(sel) = "-" /\ AllDigits(Tail(sel)))

\* parseInt(part) || default
OrDefault(parsed, default) ==
    IF parsed.nan \/ parsed.val = 0 THEN default ELSE parsed.val

\* index < 0 ? arrayLength + index : index
NormalizeIndex(index, arrayLength) ==
    IF index < 0 THEN arrayLength + index ELSE index

RECURSIVE LoopIndices(_, _, _)
\* for (let i = from; i < to; i += step) indices.push(i)
LoopIndices(from, to, step) ==
    IF from < to THEN <<from>> \o LoopIndices(from + step, to, step) ELSE <<>>

Max(a, b) == IF a >= b THEN a ELSE b

\* the result of parseSelection: null, or the indices
NullSelection == [null |-> TRUE, indices |-> <<>>]

\* indices.length > 0 ? indices : null
NonEmptyOrNull(indices) ==
    IF Len(indices) > 0 THEN [null |-> FALSE, indices |-> indices] ELSE NullSelection

\* parseSelection(selection, arrayLength)
ParseSelection(selection, arrayLength) ==
    IF selection = <<>> THEN NullSelection
    ELSE IF IsSingleIndex(selection)
    THEN LET normalizedIndex == NormalizeIndex(ParseInt(selection).val, arrayLength)
         IN  IF normalizedIndex >= 0 /\ normalizedIndex < arrayLength
             THEN [null |-> FALSE, indices |-> <<normalizedIndex>>]
             ELSE NullSelection
    ELSE IF Includes(selection, ",")
    THEN LET parts == Split(selection, ",")
             kept == SelectSeq(parts, LAMBDA part :
                        /\ ~ParseInt(part).nan
                        /\ NormalizeIndex(ParseInt(part).val, arrayLength) >= 0
                        /\ NormalizeIndex(ParseInt(part).val, arrayLength) < arrayLength)
         IN  NonEmptyOrNull([i \in 1..Len(kept) |->
                                NormalizeIndex(ParseInt(kept[i]).val, arrayLength)])
    ELSE IF Includes(selection, ":")
    THEN LET parts == Split(selection, ":")
         IN  IF Len(parts) = 2 \/ Len(parts) = 3
             THEN LET start == NormalizeIndex(OrDefault(ParseInt(parts[1]), 0),
                                              arrayLength)
                      end == NormalizeIndex(OrDefault(ParseInt(parts[2]), arrayLength),
                                            arrayLength)
                      parsedStep == IF Len(parts) = 3
                                    THEN OrDefault(ParseInt(parts[3]), 1) ELSE 1
                      step == IF parsedStep <= 0 THEN 1 ELSE parsedStep
                  IN  NonEmptyOrNull(LoopIndices(Max(0, start),
                                                 Min({arrayLength, end}), step))
             ELSE NullSelection
    ELSE NullSelection

\* the input array: its element at index i
Item(i) == 10 + i

\* the inputs of the selector: an array of some length, or no array
SelectorInputs ==
    [isArray : {TRUE}, length : 0..MaxArrayLen] \cup [isArray : {FALSE}, length : {0}]

\* node.on('input') of the selector
SelectorHandle(t, input) ==
    IF ~input.isArray
    THEN [t EXCEPT !.status = "invalid input",
                   !.last = [in |-> input, selected |-> NullSelection, sent |-> <<>>]]
    ELSE IF input.length = 0
    THEN [t EXCEPT !.status = "empty array",
                   !.last = [in |-> input, selected |-> NullSelection, sent |-> <<>>]]
    ELSE LET indices == ParseSelection(t.selection, input.length)
             selectedItems == [i \in 1..Len(indices.indices) |-> Item(indices.indices[i])]
         IN  IF ~indices.null /\ Len(indices.indices) > 0
             THEN [t EXCEPT !.status = "selected",
                            !.resets = @ + 1,
                            !.last = [in |-> input, selected |-> indices,
                                      sent |-> <<[asArray |-> t.asArray
                                                              \/ Len(selectedItems) > 1,
                                                  items |-> selectedItems]>>]]
             ELSE [t EXCEPT !.status = "invalid selection",
                            !.last = [in |-> input, selected |-> indices, sent |-> <<>>]]

NoSelection ==
    [in |-> [isArray |-> FALSE, length |-> 0], selected |-> NullSelection, sent |-> <<>>]

\* the selector the other nodes' behaviours do not use
NoSelector ==
    [selection |-> <<"0">>, asArray |-> FALSE, status |-> "ready", resets |-> 0,
     handled |-> FALSE, last |-> NoSelection]

\* node.selection = config.selection || '0'
SelectorInit ==
    /\ selector \in [selection : Selections \ {<<>>}, asArray : BOOLEAN,
                     status : {"ready"}, resets : {0}, handled : {FALSE},
                     last : {NoSelection}]

SelectorInput ==
    /\ kind = "array-select"
    /\ ~closed
    /\ received < MaxSelectorMsgs
    /\ received' = received + 1
    /\ \E input \in SelectorInputs :
          selector' = [SelectorHandle(selector, input) EXCEPT !.handled = TRUE]
    /\ UNCHANGED <<kind, now, closed, lastInput>>
    /\ UNCHANGED <<cvars, qvars, tagger, detector, saver>>

\* the timer service runs the status reset scheduled after a selection
SelectorStatusReady ==
    /\ kind = "array-select"
    /\ selector.resets > 0
    /\ selector' = [selector EXCEPT !.resets = @ - 1, !.status = "ready"]
    /\ UNCHANGED <<hvars, cvars, qvars, tagger, detector, saver>>

\* node.on('close') of the selector
SelectorClose ==
    /\ kind = "array-select"
    /\ ~closed
    /\ closed' = TRUE
    /\ selector' = [selector EXCEPT !.status = "cleared"]
    /\ UNCHANGED <<kind, now, received, lastInput>>
    /\ UNCHANGED <<cvars, qvars, tagger, detector, saver>>

----------------------------------------------------------------------------
\* rp-block-detect

RECURSIVE TrimEnd(_)
\* the string without the spaces at its end
TrimEnd(str) ==
    IF str # <<>> /\ str[Len(str)] = " " THEN TrimEnd(SubSeq(str, 1, Len(str) - 1))
    ELSE str

\* Number(value) of a setting that is missing or written as a string: a
\* blank string is 0, a decimal integer with an optional sign is its value,
\* anything else is NaN
ToNumber(value) ==
    LET str == TrimEnd(SkipSpaces(value))
    IN  IF value = Missing THEN [nan |-> TRUE, val |-> 0]
        ELSE IF str = <<>> THEN [nan |-> FALSE, val |-> 0]
        ELSE IF AllDigits(str) \/ (Head(str) \in {"-", "+"} /\ AllDigits(Tail(str)))
        THEN ParseInt(str)
        ELSE [nan |-> TRUE, val |-> 0]

\* sanitizeNumber(value, fallback, min)
SanitizeNumber(value, fallback, min) ==
    IF ~ToNumber(value).nan THEN Max(min, ToNumber(value).val) ELSE fallback

\* the settings of the editor tried: config.thresholdMs, config.consecutive,
\* config.cooldown ("" is the field left blank)
ThresholdValues == {Missing, <<"0">>}
ConsecutiveValues == {Missing, <<"0">>, <<"2">>, <<"3">>, <<"2", "a">>}
CooldownValues == {Missing, <<>>, <<"2", "0", "0", "0">>}
IntervalValues == {Missing, <<"5", "0">>}

\* the fallbacks and minimums of the constructor
DefaultIntervalMs == 1000
MinIntervalMs == 100
DefaultThresholdMs == 120
MinThresholdMs == 1
DefaultCooldownMs == 30000
MinCooldownMs == 1000

\* Date.now() when the node is constructed: later than any cooldown
StartTime == 100000

\* readHistogramStats(hist) and readFallbackStats(): the maximum, and alert
ReadStats(max, thresholdMs) == [max |-> max, alert |-> max >= thresholdMs]

\* the status the callback sets from the sample
SampleStatus(d, stats) ==
    IF d.showStats
    THEN [fill |-> IF stats.max >= d.thresholdMs
                   THEN (IF stats.alert THEN "red" ELSE "yellow")
                   ELSE "green",
          shape |-> IF stats.max >= d.thresholdMs THEN "ring" ELSE "dot"]
    ELSE IF stats.alert THEN [fill |-> "red", shape |-> "dot"]
    ELSE IF stats.max >= d.thresholdMs THEN [fill |-> "yellow", shape |-> "ring"]
    ELSE [fill |-> "green", shape |-> "dot"]

\* mutant of CooldownElapsed: the cooldown is not looked at
CooldownElapsedAlways(at, lastAlertAt, cooldownMs) == TRUE

\* now - lastAlertAt >= cooldownMs
CooldownElapsed(at, lastAlertAt, cooldownMs) == at - lastAlertAt >= cooldownMs

\* the setInterval callback, run at time at with a sample of maximum max
OnSample(d, max, at) ==
    LET stats == ReadStats(max, d.thresholdMs)
        count == IF stats.max >= d.thresholdMs THEN d.overThresholdCount + 1 ELSE 0
        reached == count >= d.consecutive
        emit == reached /\ CooldownElapsed(at, d.lastAlertAt, d.cooldownMs)
    IN  [d EXCEPT !.status = SampleStatus(d, stats),
                  !.overThresholdCount = IF reached THEN 0 ELSE count,
                  !.lastAlertAt = IF emit THEN at ELSE @,
                  !.fallbackPrev = IF d.monitorAvailable THEN @ ELSE at,
                  !.samples = Append(@, stats.max >= d.thresholdMs),
                  !.alerted = emit,
                  !.alerts = IF emit THEN @ \cup {at} ELSE @]

\* the detector the other nodes' behaviours do not use
NoDetector ==
    [intervalMs |-> DefaultIntervalMs, thresholdMs |-> DefaultThresholdMs,
     consecutive |-> 1, cooldownMs |-> DefaultCooldownMs, showStats |-> TRUE,
     monitorAvailable |-> TRUE, overThresholdCount |-> 0, lastAlertAt |-> 0,
     fallbackPrev |-> 0, timer |-> FALSE,
     status |-> [fill |-> "grey", shape |-> "ring"],
     samples |-> <<>>, alerted |-> FALSE, alerts |-> {}]

\* BlockDetectNode(config)
DetectorInit ==
    /\ now = StartTime
    /\ detector \in
          [intervalMs : {SanitizeNumber(v, DefaultIntervalMs, MinIntervalMs) :
                            v \in IntervalValues},
           thresholdMs : {SanitizeNumber(v, DefaultThresholdMs, MinThresholdMs) :
                            v \in ThresholdValues},
           \* Math.max(1, Math.round(...)): the values tried are integers
           consecutive : {Max(1, SanitizeNumber(v, 1, 1)) : v \in ConsecutiveValues},
           cooldownMs : {SanitizeNumber(v, DefaultCooldownMs, MinCooldownMs) :
                            v \in CooldownValues},
           showStats : BOOLEAN,
           monitorAvailable : BOOLEAN,
           overThresholdCount : {0}, lastAlertAt : {0}, fallbackPrev : {StartTime},
           timer : {TRUE},
           status : {[fill |-> "grey", shape |-> "ring"]},
           samples : {<<>>}, alerted : {FALSE}, alerts : {{}}]

\* the timer service runs the setInterval callback, on time or one period late
DetectorSample ==
    /\ kind = "block-detect"
    /\ detector.timer
    /\ Len(detector.samples) < MaxSamples
    /\ \E late \in BOOLEAN :
          /\ now' = now + detector.intervalMs + (IF late THEN detector.intervalMs ELSE 0)
          /\ \E measured \in {detector.thresholdMs - 1, detector.thresholdMs} :
                LET delta == now' - detector.fallbackPrev
                    max == IF detector.monitorAvailable THEN measured
                           ELSE Max(0, delta - detector.intervalMs)
                IN  detector' = OnSample(detector, max, now')
    /\ UNCHANGED <<kind, closed, received, lastInput>>
    /\ UNCHANGED <<cvars, qvars, tagger, selector, saver>>

\* node.on('close') of the detector
DetectorClose ==
    /\ kind = "block-detect"
    /\ ~closed
    /\ closed' = TRUE
    /\ detector' = [detector EXCEPT !.timer = FALSE]
    /\ UNCHANGED <<kind, now, received, lastInput>>
    /\ UNCHANGED <<cvars, qvars, tagger, selector, saver>>

----------------------------------------------------------------------------
\* rp-save-file

\* the file names the messages ask for, and the paths of the folder: <<name, 1>>
\* is the name itself and <<name, n>> the name with the suffix _n
SaveNames == {"a", "b"}

\* counter > 1000: too many file variations
MaxVariations == 1000

NoFiles == [path \in {} |-> 0]

\* a handler that has not been called
NoHandler == [pc |-> "none", name |-> "a", n |-> 1, counter |-> 2, clobbered |-> FALSE]

\* the saver the other nodes' behaviours do not use
NoSaver ==
    [overwriteEnabled |-> TRUE, files |-> NoFiles,
     handlers |-> [id \in 1..MaxSaves |-> NoHandler], status |-> "", sent |-> <<>>]

\* SaveFileNode(config), and the files the folder holds already (written by 0)
SaverInit ==
    /\ \E overwriteEnabled \in BOOLEAN, existing \in SUBSET {<<"a", 1>>, <<"a", 2>>} :
          saver = [NoSaver EXCEPT !.overwriteEnabled = overwriteEnabled,
                                  !.files = [path \in existing |-> 0]]

\* fileExists(filePath)
FileExists(files, h) == <<h.name, h.n>> \in DOMAIN files

\* node.on('input') of the saver, up to the overwrite protection
SaverInput ==
    /\ kind = "save-file"
    /\ received < MaxSaves
    /\ received' = received + 1
    /\ \E name \in SaveNames :
          saver' = [saver EXCEPT
                       !.status = "saving",
                       !.handlers[received + 1] =
                           [NoHandler EXCEPT !.name = name,
                                             !.pc = IF saver.overwriteEnabled
                                                    THEN "exists" ELSE "disk"]]
    /\ UNCHANGED <<kind, now, closed, lastInput>>
    /\ UNCHANGED <<cvars, qvars, tagger, selector, detector>>

\* one turn of while (await fileExists(filePath)), for the handler id
SaverExists(id) ==
    /\ kind = "save-file"
    /\ saver.handlers[id].pc = "exists"
    /\ LET h == saver.handlers[id]
       IN  IF FileExists(saver.files, h)
           THEN IF h.counter + 1 > MaxVariations
                THEN saver' = [saver EXCEPT !.handlers[id].pc = "error",
                                            !.status = "error"]
                ELSE saver' = [saver EXCEPT !.handlers[id].n = h.counter,
                                            !.handlers[id].counter = h.counter + 1]
           ELSE saver' = [saver EXCEPT !.handlers[id].pc = "disk"]
    /\ UNCHANGED <<hvars, cvars, qvars, tagger, selector, detector>>

\* await getDiskUsageInfo(folderPath): the save is skipped on a full disk
SaverDisk(id) ==
    /\ kind = "save-file"
    /\ saver.handlers[id].pc = "disk"
    /\ \E full \in BOOLEAN :
          saver' = IF full
                   THEN [saver EXCEPT !.handlers[id].pc = "skipped",
                                      !.status = "disk full"]
                   ELSE [saver EXCEPT !.handlers[id].pc = "write"]
    /\ UNCHANGED <<hvars, cvars, qvars, tagger, selector, detector>>

\* await fs.writeFile(filePath, payloadToWrite), the status and send(msg)
SaverWrite(id) ==
    /\ kind = "save-file"
    /\ saver.handlers[id].pc = "write"
    /\ LET h == saver.handlers[id]
           path == <<h.name, h.n>>
       IN  saver' = [saver EXCEPT
                        !.files = [p \in DOMAIN saver.files \cup {path} |->
                                      IF p = path THEN id ELSE saver.files[p]],
                        !.handlers[id].pc = "done",
                        !.handlers[id].clobbered = FileExists(saver.files, h),
                        !.status = "saved",
                        !.sent = Append(@, [msg |-> id, path |-> path])]
    /\ UNCHANGED <<hvars, cvars, qvars, tagger, selector, detector>>

----------------------------------------------------------------------------
\* time passes
Tick ==
    /\ now < MaxTime
    /\ now' = now + 1
    /\ UNCHANGED <<kind, closed, received, lastInput>>
    /\ UNCHANGED <<cvars, qvars, nvars>>

\* time passes beyond the horizon of the model while a timer is not yet due
TickToDue ==
    /\ now >= MaxTime
    /\ \E t \in timers \cup pendingSends : now < t.due
    /\ now' = now + 1
    /\ UNCHANGED <<kind, closed, received, lastInput>>
    /\ UNCHANGED <<cvars, qvars, nvars>>

----------------------------------------------------------------------------
Init ==
    /\ kind \in {"array-out", "queue"}
    /\ now = 1
    /\ closed = FALSE
    /\ received = 0
    /\ lastInput = [typed |-> FALSE, pos |-> 0]
    /\ CollectorInit
    /\ QueueInit
    /\ tagger = NoTagger
    /\ selector = NoSelector
    /\ detector = NoDetector
    /\ saver = NoSaver
    \* the configuration of the node; the other node's is not used
    /\ IF kind = "array-out"
       THEN /\ config \in
                  [expectedCount : {<<DigitChars[n + 1]>> : n \in 1..MaxExpected},
                   timeout : {<<DigitChars[n + 1], "0", "0", "0">> : n \in 1..MaxTimeout}]
            /\ placeThrows \in BOOLEAN
       ELSE /\ config = [expectedCount |-> <<"1">>, timeout |-> <<"1", "0", "0", "0">>]
            /\ placeThrows = FALSE
    /\ Construct
    /\ IF kind = "queue"
       THEN /\ maxQueueSize \in 0..MaxQueueSize
            /\ intervalMs \in 0..MaxInterval
            /\ timeoutMs \in 0..MaxQueueTimeout
            /\ mode \in {ParseMode(m) : m \in ConfigModes}
       ELSE maxQueueSize = 0 /\ intervalMs = 0 /\ timeoutMs = 0 /\ mode = "legacy"

Next ==
    \/ Input
    \/ HandleTimeout
    \/ StatusReady
    \/ Close
    \/ QueueInput
    \/ SendFn
    \/ QueueClose
    \/ Tick

Spec == Init /\ [][Next]_vars

\* A queue alone; time passes, and the timer service runs sendFn when it is due
QueueNext ==
    \/ QueueInput
    \/ SendFn
    \/ QueueClose
    \/ Tick
    \/ TickToDue

QueueOnlyInit == Init /\ kind = "queue"

QueueFairSpec ==
    /\ QueueOnlyInit
    /\ [][QueueNext]_vars
    /\ WF_vars(Tick) /\ WF_vars(TickToDue) /\ WF_vars(SendFn)

\* the same, for a queue with an interval and no bound enforced
IntervalQueueInit ==
    /\ QueueOnlyInit
    /\ intervalMs > 0
    /\ ~(useQueueLimit /\ maxQueueSize > 0)
    /\ ~(useTimeout /\ timeoutMs > 0)

IntervalQueueSpec ==
    /\ IntervalQueueInit
    /\ [][QueueNext]_vars
    /\ WF_vars(Tick) /\ WF_vars(TickToDue) /\ WF_vars(SendFn)

\* A collector alone; time passes, and the timer service runs handleTimeout
\* when it is due
CollectorOnlyInit == Init /\ kind = "array-out"

CollectorNext ==
    \/ Input
    \/ HandleTimeout
    \/ StatusReady
    \/ Close
    \/ Tick
    \/ TickToDue

\* time passes or the timeout timer that is due fires, as long as one can
CollectorTimerService == Tick \/ TickToDue \/ HandleTimeout

CollectorFairSpec ==
    /\ CollectorOnlyInit
    /\ [][CollectorNext]_vars
    /\ WF_vars(CollectorTimerService)

\* A queue in mode 'legacy', where each bound is enforced unless it is 0: the
\* bounds of the other two modes are those of this one with the bound that
\* the mode ignores set to 0
LegacyQueueInit ==
    /\ QueueOnlyInit
    /\ mode = "legacy"

\* time passes or a timer that is due fires, as long as one of them can
TimerService == Tick \/ TickToDue \/ SendFn

\* the messages of a run of that queue
LegacyQueueInput == QueueInput /\ received < MaxLiveMsgs

LegacyQueueNext ==
    \/ LegacyQueueInput
    \/ SendFn
    \/ QueueClose
    \/ Tick
    \/ TickToDue

LegacyQueueFairSpec ==
    /\ LegacyQueueInit
    /\ [][LegacyQueueNext]_vars
    /\ WF_vars(TimerService)

\* A collector constructed from any of the configuration values, one field
\* at a time, and the messages it is then given
ConfigInit ==
    /\ kind = "array-out"
    /\ now = 1
    /\ closed = FALSE
    /\ received = 0
    /\ lastInput = [typed |-> FALSE, pos |-> 0]
    /\ CollectorInit
    /\ QueueInit
    /\ config \in
          [expectedCount : ConfigValues, timeout : {<<"5", "0", "0", "0">>}]
          \cup [expectedCount : {<<"2">>}, timeout : ConfigValues]
    /\ placeThrows = FALSE
    /\ Construct
    /\ maxQueueSize = 0 /\ intervalMs = 0 /\ timeoutMs = 0 /\ mode = "legacy"
    /\ tagger = NoTagger
    /\ selector = NoSelector
    /\ detector = NoDetector
    /\ saver = NoSaver

\* the collector and the queue as constructed with their defaults, for the
\* behaviours of the other nodes
CollectorIdle ==
    /\ CollectorInit
    /\ config = [expectedCount |-> <<"1">>, timeout |-> <<"1", "0", "0", "0">>]
    /\ placeThrows = FALSE
    /\ Construct

QueueIdle ==
    /\ QueueInit
    /\ maxQueueSize = 0 /\ intervalMs = 0 /\ timeoutMs = 0 /\ mode = "legacy"

\* A tagger alone
TaggerOnlyInit ==
    /\ kind = "array-in"
    /\ now = 1
    /\ closed = FALSE
    /\ received = 0
    /\ lastInput = [typed |-> FALSE, pos |-> 0]
    /\ CollectorIdle
    /\ QueueIdle
    /\ TaggerInit
    /\ selector = NoSelector
    /\ detector = NoDetector
    /\ saver = NoSaver

TaggerNext == TaggerInput \/ TaggerClose

TaggerSpec == TaggerOnlyInit /\ [][TaggerNext]_vars

\* A selector alone
SelectorOnlyInit ==
    /\ kind = "array-select"
    /\ now = 1
    /\ closed = FALSE
    /\ received = 0
    /\ lastInput = [typed |-> FALSE, pos |-> 0]
    /\ CollectorIdle
    /\ QueueIdle
    /\ tagger = NoTagger
    /\ SelectorInit
    /\ detector = NoDetector
    /\ saver = NoSaver

SelectorNext == SelectorInput \/ SelectorStatusReady \/ SelectorClose

SelectorSpec == SelectorOnlyInit /\ [][SelectorNext]_vars

\* A detector alone
DetectorOnlyInit ==
    /\ kind = "block-detect"
    /\ closed = FALSE
    /\ received = 0
    /\ lastInput = [typed |-> FALSE, pos |-> 0]
    /\ CollectorIdle
    /\ QueueIdle
    /\ tagger = NoTagger
    /\ selector = NoSelector
    /\ DetectorInit
    /\ saver = NoSaver

DetectorNext == DetectorSample \/ DetectorClose

DetectorSpec == DetectorOnlyInit /\ [][DetectorNext]_vars

\* A saver alone: the handlers of its messages run one await at a time
SaverOnlyInit ==
    /\ kind = "save-file"
    /\ now = 1
    /\ closed = FALSE
    /\ received = 0
    /\ lastInput = [typed |-> FALSE, pos |-> 0]
    /\ CollectorIdle
    /\ QueueIdle
    /\ tagger = NoTagger
    /\ selector = NoSelector
    /\ detector = NoDetector
    /\ SaverInit

SaverStep == \E id \in 1..MaxSaves : SaverExists(id) \/ SaverDisk(id) \/ SaverWrite(id)

SaverNext == SaverInput \/ SaverStep

SaverSpec == SaverOnlyInit /\ [][SaverNext]_vars

ConfigNext == Input \/ Close

ConfigSpec == ConfigInit /\ [][ConfigNext]_vars

----------------------------------------------------------------------------
\* Vocabulary of the collector's properties

Indices == 0..(expectedCount - 1)

Range(seq) == {seq[i] : i \in DOMAIN seq}

IsAscending(seq) == \A i \in 1..(Len(seq) - 1) : seq[i] < seq[i + 1]

IsPrefix(a, b) == Len(a) <= Len(b) /\ SubSeq(b, 1, Len(a)) = a

\* what the collector sent for the cycle started last
CycleSent == SelectSeq(sent, LAMBDA m : m.cycle = cycle)

\* the positions of 0..expectedCount-1 stored in the cycle started last
CollectedIdx == {i \in Indices : Key(i) \in DOMAIN accepted}

\* every position stored in the cycle started last is an integer
OnlyIndices == \A k \in DOMAIN accepted : k % 2 = 0

Idle ==
    /\ ~isCollecting
    /\ collection = EmptyCollection
    /\ timeoutHandle = null
    /\ collectionStartTime = null
    /\ timers = {}

\* C1 (P1, completion): with a writable output location, once every position
\* 0..expectedCount-1 has been stored in a cycle, in whatever order, exactly one
\* message has been sent for that cycle, it went to output 1, its sequence holds
\* the value of position i at index i, and the collector is Idle again.
P1_Completion ==
    (kind = "array-out" /\ ~placeThrows /\ cycle >= 1 /\ CollectedIdx = Indices) =>
        /\ Len(CycleSent) = 1
        /\ CycleSent[1].out = 1
        /\ CycleSent[1].seq = [i \in 1..expectedCount |-> accepted[Key(i - 1)]]
        /\ Idle

\* position 1 arrived before position 0, and the sequence is in position order
P1_Witness ==
    /\ kind = "array-out" /\ ~placeThrows /\ expectedCount = 2
    /\ CollectedIdx = Indices
    /\ Len(CycleSent) = 1
    /\ CycleSent[1].out = 1
    /\ CycleSent[1].seq[2] # null
    /\ CycleSent[1].seq[1] > CycleSent[1].seq[2]

\* a cycle that stored integer positions only, not all of them, and is over
\* without the node being closed: its timer has fired
TimedOutPartial ==
    /\ kind = "array-out" /\ ~placeThrows /\ ~closed
    /\ cycle >= 1 /\ ~isCollecting
    /\ OnlyIndices /\ CollectedIdx # Indices

\* what P2 says of the message m sent for such a cycle, but for the placeholder
P2_Meta(m) ==
    /\ m.out = 2
    /\ IsAscending(m.meta.collectedPositions)
    /\ Range(m.meta.collectedPositions) = CollectedIdx
    /\ IsAscending(m.meta.missingPositions)
    /\ Range(m.meta.missingPositions) = Indices \ CollectedIdx
    /\ m.meta.collectedCount = Cardinality(CollectedIdx)
    /\ Len(m.seq) = expectedCount

P3_Overwrite ==
    kind = "array-out" =>
        /\ \A j \in 1..Len(CycleSent) :
              /\ \A i \in CollectedIdx : CycleSent[j].seq[i + 1] = accepted[Key(i)]
              /\ CycleSent[j].out = 1 =>
                    Cardinality(DOMAIN accepted) = expectedCount
              /\ CycleSent[j].out = 2 =>
                    CycleSent[j].meta.collectedCount = Cardinality(DOMAIN accepted)
        /\ isCollecting =>
              /\ collection = accepted
              /\ Cardinality(DOMAIN collection) < expectedCount

\* a position was stored twice in a cycle that then completed
P3_Witness ==
    /\ kind = "array-out"
    /\ stored > Cardinality(DOMAIN accepted)
    /\ Len(CycleSent) = 1
    /\ CycleSent[1].out = 1
    /\ expectedCount = 2

\* the step of a message that starts a cycle
StartsCycle == kind = "array-out" /\ cycle' = cycle + 1

\* what the first message of a cycle leaves when it does not complete the cycle
FreshCycle ==
    isCollecting' =>
        /\ DOMAIN collection' = DOMAIN accepted'
        /\ Cardinality(DOMAIN collection') = 1
        /\ collectionStartTime' = now
        /\ timers' = {[id |-> timeoutHandle', due |-> now + timeout]}

\* C8 (P4, idle isolation): a message stored when no cycle is active starts a
\* fresh cycle: one slot, start time now, one timer armed for the configured
\* timeout. No step changes a message already sent, and every value of a
\* sequence sent for a cycle was stored in that cycle.
P4_IdleIsolation ==
    /\ [][IsPrefix(sent, sent')]_vars
    /\ [][StartsCycle => (~isCollecting /\ FreshCycle)]_vars
    /\ [](\A j \in 1..Len(CycleSent) :
             Range(CycleSent[j].seq) \subseteq Range(accepted) \cup {null})

\* a second cycle is collecting after the first one has sent its result
P4_Witness ==
    /\ kind = "array-out"
    /\ cycle = 2 /\ isCollecting
    /\ Len(sent) = 1
    /\ sent[1].cycle = 1

----------------------------------------------------------------------------
\* Vocabulary of the queue's properties

CapacityEnforced == useQueueLimit /\ maxQueueSize > 0
AgeEnforced == useTimeout /\ timeoutMs > 0

\* the messages of a log
Msgs(log) == [i \in 1..Len(log) |-> log[i].msg]

Output1 == SelectSeq(queueSent, LAMBDA m : m.out = 1)
TimeoutDrops ==
    SelectSeq(queueSent, LAMBDA m : m.out = 2 /\ m.meta.queueDropReason = "timeout")
OverflowDrops ==
    SelectSeq(queueSent, LAMBDA m : m.out = 2 /\ m.meta.queueDropReason = "overflow")

\* what a step adds to the log of the queue
Added == SubSeq(queueSent', Len(queueSent) + 1, Len(queueSent'))

\* a step of the input handler of the queue, and a step of any of its handlers
Arrival == kind = "queue" /\ received' = received + 1
HandlerStep == kind = "queue" /\ now' = now /\ ~closed'

P5_Config == kind = "queue" /\ intervalMs > 0 /\ ~CapacityEnforced /\ ~AgeEnforced

\* C3 (P5, FIFO and interval): with an interval T > 0 and no bound enforced,
\* nothing goes to output 2, output 1 carries the messages in arrival order
\* with consecutive emissions at least T apart, and, the node not being
\* closed, again and again every message received so far has been sent on
\* output 1 (N messages give N emissions).
P5_FifoInterval ==
    /\ [](P5_Config =>
            /\ Output1 = queueSent
            /\ \A i \in 1..Len(queueSent) : queueSent[i].msg = i
            /\ \A i \in 1..(Len(queueSent) - 1) :
                  queueSent[i + 1].at - queueSent[i].at >= intervalMs)
    /\ []<>(P5_Config => (closed \/ Len(Output1) = received))

\* three messages arrived together: two are out, an interval apart, one waits
P5_Witness ==
    /\ P5_Config
    /\ Len(queueSent) = 2
    /\ Len(state.queue) = 1
    /\ state.queue[1].enqueuedAt = queueSent[1].at
    /\ queueSent[2].at >= queueSent[1].at + intervalMs

P7_AgeEviction ==
    /\ [][(HandlerStep /\ AgeEnforced) =>
            /\ \A i \in 1..Len(state'.queue) :
                  now - state'.queue[i].enqueuedAt < timeoutMs
            /\ \A i \in 1..Len(state.queue) :
                  (now - state.queue[i].enqueuedAt >= timeoutMs) =>
                      \E j \in 1..Len(Added) :
                          /\ Added[j].msg = state.queue[i].msg
                          /\ Added[j].out = 2
                          /\ Added[j].meta.queueDropReason = "timeout"
            /\ \A j \in 1..Len(Added) :
                  (Added[j].out = 2 /\ Added[j].meta.queueDropReason = "timeout") =>
                      \A i \in 1..Len(state'.queue) :
                          state'.queue[i].msg > Added[j].msg]_vars
    /\ [](kind = "queue" => IsAscending(Msgs(TimeoutDrops)))

\* emission is blocked by an interval longer than the timeout, and two entries
\* have been evicted, the older one first
P7_Witness ==
    /\ kind = "queue" /\ AgeEnforced
    /\ intervalMs > timeoutMs
    /\ Len(TimeoutDrops) = 2
    /\ Len(Output1) = 1
    /\ TimeoutDrops[2].at < Output1[1].at + intervalMs

\* C6 (P8, shutdown silence): the close handler sends nothing, and once it
\* has run no message is sent on any output, no timer is pending and no timer
\* callback runs, for a collector closed in a cycle and for a queue closed
\* with entries buffered.
P8_ShutdownSilence ==
    /\ [][closed' => (sent' = sent /\ queueSent' = queueSent)]_vars
    /\ [][closed => (timers' = timers /\ pendingSends' = pendingSends)]_vars
    /\ [](closed => (timers = {} /\ pendingSends = {}))

\* a collector closed in a cycle whose timer would have been due by now
P8_Witness ==
    /\ kind = "array-out" /\ closed /\ ~placeThrows
    /\ expectedCount = 2 /\ timeout = 1
    /\ cycle = 1 /\ received = 1
    /\ Cardinality(DOMAIN accepted) = 1
    /\ sent = <<>>
    /\ now > 1 + timeout

\* a queue closed with a message waiting for the interval: it is never sent
P8_WitnessQueue ==
    /\ kind = "queue" /\ closed
    /\ received = 2
    /\ Len(queueSent) = 1
    /\ ~CapacityEnforced /\ ~AgeEnforced
    /\ now >= queueSent[1].at + intervalMs

\* C9 (FIFO): under every configuration output 1 carries messages in arrival
\* order, the messages that leave the queue by emission or eviction leave in
\* arrival order, and whatever a step removes from the queue is a prefix of it.
QueueFifo ==
    /\ [](kind = "queue" =>
            /\ IsAscending(Msgs(Output1))
            /\ IsAscending(Msgs(SelectSeq(queueSent, LAMBDA m :
                   m.out = 1 \/ m.meta.queueDropReason = "timeout"))))
    /\ [][kind = "queue" =>
            \E k \in 0..Len(state.queue) :
                LET rest == SubSeq(state.queue, k + 1, Len(state.queue))
                IN  \/ state'.queue = rest
                    \/ /\ Len(state'.queue) = Len(rest) + 1
                       /\ SubSeq(state'.queue, 1, Len(rest)) = rest
                       /\ state'.queue[Len(rest) + 1].msg = received']_vars

\* an eviction, then an emission of a later message, with both bounds set
QueueFifo_Witness ==
    /\ kind = "queue" /\ AgeEnforced /\ CapacityEnforced /\ intervalMs > 0
    /\ Len(TimeoutDrops) >= 1
    /\ Len(Output1) >= 2
    /\ Output1[2].msg > TimeoutDrops[1].msg

\* C10 (overflow frame): when a message arrives and the entries that are not
\* expired fill the enforced capacity, the message is sent at once on output 2
\* with meta.queueDropped = TRUE and meta.queueDropReason = "overflow", and the
\* queue, lastSent, the timer handle and the pending timer stay as they were.
OverflowFrame ==
    [][(/\ Arrival
        /\ CapacityEnforced
        /\ Len(SelectSeq(state.queue,
                         LAMBDA e : ~(AgeEnforced /\ now - e.enqueuedAt >= timeoutMs)))
              >= maxQueueSize)
       => (/\ queueSent' = Append(queueSent, queueSent'[Len(queueSent')])
           /\ LET m == queueSent'[Len(queueSent')]
              IN  /\ m.out = 2
                  /\ m.msg = received'
                  /\ m.at = now
                  /\ m.meta.queueDropped = TRUE
                  /\ m.meta.queueDropReason = "overflow"
           /\ state' = state
           /\ pendingSends' = pendingSends)]_vars

\* a message was dropped at a full queue whose timer is still pending
OverflowFrame_Witness ==
    /\ kind = "queue" /\ CapacityEnforced /\ AgeEnforced
    /\ Len(state.queue) = maxQueueSize
    /\ Len(OverflowDrops) >= 1
    /\ queueSent[Len(queueSent)].out = 2
    /\ queueSent[Len(queueSent)].meta.queueDropReason = "overflow"
    /\ queueSent[Len(queueSent)].at = now
    /\ pendingSends # {}

----------------------------------------------------------------------------
\* Further properties of the collector

\* the message delivered last is one the claims call out of range or untyped
LastOutOfRange ==
    \/ ~lastInput.typed
    \/ lastInput.pos < Key(0)
    \/ lastInput.pos >= Key(expectedCount)

\* a step of the collector's input handler
CollectorArrival == kind = "array-out" /\ received' = received + 1

\* C11 (slot invariant): every key of node.collection is an integer position
\* in 0..expectedCount-1, whatever positions the handler accepted.
SlotKeysInRange ==
    kind = "array-out" =>
        \A k \in DOMAIN collection : \E i \in Indices : k = Key(i)

\* C12 (rejection frame): a message without a numeric meta.arrayPosition, or
\* with a position below 0 or at or above expectedCount, sends nothing and
\* leaves the slots, isCollecting, the start time, the timer handle and the
\* pending timers as they were; no cycle starts.
RejectionFrame ==
    [][(CollectorArrival /\ LastOutOfRange') =>
          /\ sent' = sent
          /\ collection' = collection
          /\ isCollecting' = isCollecting
          /\ collectionStartTime' = collectionStartTime
          /\ timeoutHandle' = timeoutHandle
          /\ timers' = timers
          /\ cycle' = cycle]_vars

\* of three messages one is stored and two were rejected, the last of them at
\* position expectedCount in a cycle that goes on
RejectionFrame_Witness ==
    /\ kind = "array-out"
    /\ lastInput.typed /\ lastInput.pos = Key(expectedCount)
    /\ isCollecting
    /\ received = 3 /\ stored = 1
    /\ DOMAIN collection = {Key(0)}

\* C13 (single cycle): at most one timeout timer is pending, and none when
\* no cycle is active; a pending timer is the one whose handle is held and is
\* due at the start time of the cycle plus the configured timeout; a message
\* accepted while Collecting starts no cycle, keeps the slots stored before,
\* the start time, the handle and the pending timer.
SingleCycle ==
    /\ [](kind = "array-out" =>
            /\ Cardinality(timers) <= 1
            /\ ~isCollecting => timers = {}
            /\ \A t \in timers :
                  t = [id |-> timeoutHandle, due |-> collectionStartTime + timeout])
    /\ [][(CollectorArrival /\ isCollecting /\ ~LastOutOfRange') =>
            /\ cycle' = cycle
            /\ isCollecting' =>
                  /\ collectionStartTime' = collectionStartTime
                  /\ timeoutHandle' = timeoutHandle
                  /\ timers' = timers
                  /\ DOMAIN collection \subseteq DOMAIN collection'
                  /\ \A k \in DOMAIN collection \ {lastInput'.pos} :
                        collection'[k] = collection[k]]_vars

\* a second message has joined a cycle after its start, and the timer is due
\* where the first message put it
SingleCycle_Witness ==
    /\ kind = "array-out"
    /\ isCollecting
    /\ stored = 2 /\ received = 2
    /\ now > collectionStartTime
    /\ timers = {[id |-> timeoutHandle, due |-> collectionStartTime + timeout]}
    /\ now < collectionStartTime + timeout

\* C14 (completion requires all filled): when a message has been sent on
\* output 1 for a cycle, every position 0..expectedCount-1 was stored in that
\* cycle, so no index of the sequence holds the placeholder of a position
\* never seen.
CompletionAllFilled ==
    kind = "array-out" =>
        \A j \in 1..Len(CycleSent) :
            CycleSent[j].out = 1 =>
                /\ CollectedIdx = Indices
                /\ \A i \in Indices :
                      CycleSent[j].seq[i + 1] = null => accepted[Key(i)] = null

\* C16 (shutdown cancels every timer): once the collector is closed no
\* callback it scheduled runs, neither handleTimeout nor the setStatusReady
\* scheduled after a completion or a timeout: no pending timer is consumed
\* and the status the close handler cleared stays cleared.
ShutdownCancelsTimers ==
    [][(kind = "array-out" /\ closed) =>
          /\ timers' = timers
          /\ statusTimers' = statusTimers
          /\ status' = status]_vars

\* the cycle state later messages see
CycleState == <<collection, isCollecting, collectionStartTime, timeoutHandle, timers>>

\* C20 (error atomicity): when the processing of an input message fails, the
\* cycle state is as it was before the message, or the message is fully
\* processed; either way the items collected earlier in the cycle are still
\* in the slots or have been sent.
ErrorAtomicity ==
    [][(CollectorArrival /\ status' = "error") =>
          /\ \/ CycleState' = CycleState
             \/ /\ Len(sent') = Len(sent) + 1
                /\ Idle'
          /\ \A k \in DOMAIN collection :
                \/ k \in DOMAIN collection' /\ collection'[k] = collection[k]
                \/ /\ Len(sent') = Len(sent) + 1
                   /\ collection[k] \in Range(sent'[Len(sent')].seq)]_vars

----------------------------------------------------------------------------
\* Further properties of the queue

\* C15 (timer invariant): at most one sendFn timer is pending, it is the one
\* whose handle state.timer holds, and when a handler has run a timer is
\* pending exactly when the queue is not empty.
QueueTimerInvariant ==
    kind = "queue" =>
        /\ Cardinality(pendingSends) <= 1
        /\ \A t \in pendingSends : t.id = state.timer
        /\ (pendingSends = {}) <=> (state.timer = null)
        /\ (pendingSends # {}) <=> (Len(state.queue) > 0)

\* two entries wait behind two emissions: the timer was armed again after the
\* second one, and it is the only one pending
QueueTimerInvariant_Witness ==
    /\ kind = "queue"
    /\ Len(Output1) = 2
    /\ Len(state.queue) = 2
    /\ Cardinality(pendingSends) = 1
    /\ \E t \in pendingSends : t.due = Output1[2].at + intervalMs

\* the entries of the queue younger than the timeout
Unexpired(queue) == SelectSeq(queue, LAMBDA e : now - e.enqueuedAt < timeoutMs)

\* C17 (legacy mode): in mode 'legacy' each bound is enforced when it is not
\* 0, both in the same run. With maxQueueSize > 0 a message arriving when the
\* entries kept fill the queue is sent on output 2 for overflow and not
\* queued, whatever the timeout; with timeout > 0 a handler leaves no entry of
\* that age or more and sends each one on output 2 for timeout, whatever the
\* capacity; a bound of 0 switches off its own drops only.
LegacyMode ==
    /\ [][(Arrival /\ mode = "legacy" /\ maxQueueSize > 0
             /\ Len(IF timeoutMs > 0 THEN Unexpired(state.queue) ELSE state.queue)
                   >= maxQueueSize) =>
            /\ Len(Added) >= 1
            /\ Added[Len(Added)].out = 2
            /\ Added[Len(Added)].msg = received'
            /\ Added[Len(Added)].meta.queueDropReason = "overflow"
            /\ \A i \in 1..Len(state'.queue) : state'.queue[i].msg # received']_vars
    /\ [][(HandlerStep /\ mode = "legacy" /\ timeoutMs > 0) =>
            /\ state'.queue = Unexpired(state'.queue)
            /\ \A i \in 1..Len(state.queue) :
                  (now - state.queue[i].enqueuedAt >= timeoutMs) =>
                      \E j \in 1..Len(Added) :
                          /\ Added[j].msg = state.queue[i].msg
                          /\ Added[j].out = 2
                          /\ Added[j].meta.queueDropReason = "timeout"]_vars
    /\ []((kind = "queue" /\ mode = "legacy") =>
            /\ maxQueueSize = 0 => OverflowDrops = <<>>
            /\ timeoutMs = 0 => TimeoutDrops = <<>>)

\* one run of a legacy queue with both bounds set has dropped a message for
\* overflow and evicted one for timeout
LegacyMode_Witness ==
    /\ kind = "queue" /\ mode = "legacy"
    /\ maxQueueSize > 0 /\ timeoutMs > 0
    /\ Len(OverflowDrops) >= 1
    /\ Len(TimeoutDrops) >= 1

\* C18 (explicit modes): in mode 'queue-size' no message is evicted for
\* timeout, whatever the timeout configured, and every message received is on
\* output 1, in the queue or dropped for overflow; in mode 'timeout' no
\* message is dropped for overflow, whatever maxQueueSize.
ExplicitModes ==
    kind = "queue" =>
        /\ mode = "queue-size" =>
              /\ TimeoutDrops = <<>>
              /\ closed \/ Len(Output1) + Len(state.queue) + Len(OverflowDrops) = received
        /\ mode = "timeout" =>
              /\ OverflowDrops = <<>>
              /\ closed \/ Len(Output1) + Len(state.queue) + Len(TimeoutDrops) = received

\* mode 'queue-size' with a timeout configured: an entry older than the
\* timeout is still queued
ExplicitModes_Witness ==
    /\ kind = "queue" /\ mode = "queue-size"
    /\ timeoutMs > 0
    /\ Len(state.queue) >= 1
    /\ now - state.queue[1].enqueuedAt > timeoutMs

\* mode 'timeout' with a capacity configured: the queue has grown beyond it
ExplicitModes_WitnessGrowth ==
    /\ kind = "queue" /\ mode = "timeout"
    /\ maxQueueSize > 0
    /\ Len(state.queue) > maxQueueSize

\* C19 (no stale message forwarded): with the timeout enforced, a message a
\* handler sends on output 1 is the one just received or an entry that has
\* been queued for less than the timeout; an entry queued for the timeout or
\* longer when a handler runs does not reach output 1.
NoStaleForward ==
    [][(HandlerStep /\ AgeEnforced) =>
          \A j \in 1..Len(Added) :
              Added[j].out = 1 =>
                  /\ \/ Arrival /\ Added[j].msg = received'
                     \/ \E i \in 1..Len(state.queue) :
                           /\ state.queue[i].msg = Added[j].msg
                           /\ now - state.queue[i].enqueuedAt < timeoutMs
                  /\ \A i \in 1..Len(state.queue) :
                        now - state.queue[i].enqueuedAt >= timeoutMs =>
                            state.queue[i].msg # Added[j].msg]_vars

\* message 2 waited for the interval and was forwarded in time; message 3,
\* queued before that emission, reached the timeout and was evicted
NoStaleForward_Witness ==
    /\ kind = "queue" /\ AgeEnforced /\ intervalMs > 0
    /\ Len(Output1) = 2
    /\ Output1[2].msg = 2
    /\ Output1[2].at > Output1[1].at
    /\ Len(TimeoutDrops) = 1
    /\ TimeoutDrops[1].msg = 3
    /\ TimeoutDrops[1].at - TimeoutDrops[1].meta.queuedDuration < Output1[2].at

----------------------------------------------------------------------------
\* Properties of the collector's configuration

\* a configured value that is missing, non-numeric (no digit in it), zero or
\* negative
InvalidCountValue(value) ==
    \/ value = Missing
    \/ \A i \in 1..Len(value) : ~IsDigit(value[i])
    \/ AllZeros(value)
    \/ Len(value) >= 2 /\ Head(value) = "-" /\ AllDigits(Tail(value))

TimeoutConfig ==
    kind = "array-out" =>
        /\ NodeTimeout(config.timeout) \in Int
        /\ NodeTimeout(config.timeout) >= 100
        /\ (\/ config.timeout = Missing
            \/ \A i \in 1..Len(config.timeout) : ~IsDigit(config.timeout[i])) =>
              NodeTimeout(config.timeout) = 5000

----------------------------------------------------------------------------
\* Properties of the tagger

\* the position value the tagger resolved for the message handled last
ResolvedValue ==
    IF tagger.config.arrayPositionType = "num"
    THEN tagger.config.arrayPositionValue
    ELSE tagger.last.in.position

LookupFailed == tagger.config.arrayPositionType # "num" /\ ~tagger.last.in.found

\* C23 (invalid position): with a position specification that is not empty,
\* the tagger sends nothing for a message whose resolved position is not
\* written as a non-negative integer (negative, non-numeric, fractional, or a
\* lookup that fails), and for a resolved non-negative integer p it sends the
\* message with meta.arrayPosition = p.
InvalidPositionDropped ==
    (kind = "array-in" /\ tagger.handled
        /\ ~IsBlank(tagger.config.arrayPositionValue)) =>
        /\ (LookupFailed \/ ~AllDigits(ResolvedValue)) => tagger.last.sent = <<>>
        /\ (~LookupFailed /\ AllDigits(ResolvedValue) /\ ~tagger.last.failed) =>
              /\ Len(tagger.last.sent) = 1
              /\ tagger.last.sent[1].meta.arrayPosition = ParseInt(ResolvedValue).val

\* the input path is msg.payload
PathIsPayload ==
    tagger.config.inputPathType = "msg" /\ tagger.config.inputPath = "payload"

\* what is found at the input path for the message handled last
ValueAtPath ==
    IF tagger.config.inputPathType # "msg" THEN tagger.context
    ELSE IF tagger.config.inputPath = "data" THEN tagger.last.in.data
    ELSE tagger.last.in.payload

\* C24 (payload frame): in the message the tagger sends, msg.payload differs
\* from the incoming msg.payload only when the input path is msg.payload, and
\* is then the extracted value; for any other path or scope it is the
\* incoming msg.payload; meta.arrayData is the extracted value, null when
\* nothing is found at the path, and the message is sent all the same.
PayloadFrame ==
    (kind = "array-in" /\ tagger.handled) =>
        /\ \A i \in 1..Len(tagger.last.sent) :
              LET out == tagger.last.sent[i]
                  extracted == IF ValueAtPath = undefined THEN null ELSE ValueAtPath
              IN  /\ out.meta.arrayData = extracted
                  /\ PathIsPayload => out.payload = extracted
                  /\ ~PathIsPayload => out.payload = tagger.last.in.payload
                  /\ out.data = tagger.last.in.data
        /\ (ValueAtPath = undefined /\ tagger.status = "position") =>
              /\ Len(tagger.last.sent) = 1
              /\ tagger.last.sent[1].meta.arrayData = null

\* the value was read at msg.data: meta.arrayData holds it and msg.payload is
\* the incoming one
PayloadFrame_Witness ==
    /\ kind = "array-in" /\ tagger.handled
    /\ tagger.config.inputPathType = "msg" /\ tagger.config.inputPath = "data"
    /\ tagger.last.in.payload = 1 /\ tagger.last.in.data = 2
    /\ Len(tagger.last.sent) = 1
    /\ tagger.last.sent[1].payload = 1
    /\ tagger.last.sent[1].meta.arrayData = 2

\* nothing was found at msg.payload: the message is sent with null in both
PayloadFrame_WitnessNull ==
    /\ kind = "array-in" /\ tagger.handled
    /\ PathIsPayload
    /\ tagger.last.in.payload = undefined
    /\ Len(tagger.last.sent) = 1
    /\ tagger.last.sent[1].payload = null
    /\ tagger.last.sent[1].meta.arrayData = null

----------------------------------------------------------------------------
\* Properties of the selector

\* a bound of a range as it is written: omitted, or an integer
IsBound(part) == part = <<>> \/ IsSingleIndex(part)

\* the selection is written start:end or start:end:step with a step >= 1
IsRangeSelection(sel) ==
    /\ Includes(sel, ":") /\ ~Includes(sel, ",")
    /\ LET parts == Split(sel, ":")
       IN  /\ Len(parts) \in {2, 3}
           /\ IsBound(parts[1]) /\ IsBound(parts[2])
           /\ Len(parts) = 3 => (AllDigits(parts[3]) /\ ParseInt(parts[3]).val >= 1)

\* a bound b of a slice of a list of length len, as Python places it
PyBound(b, len) == IF b < 0 THEN Max(0, len + b) ELSE Min({b, len})

\* the indices of a[start:end:step] for a list a of length len
PySlice(sel, len) ==
    LET parts == Split(sel, ":")
        start == IF parts[1] = <<>> THEN 0 ELSE PyBound(ParseInt(parts[1]).val, len)
        end == IF parts[2] = <<>> THEN len ELSE PyBound(ParseInt(parts[2]).val, len)
        step == IF Len(parts) = 3 THEN ParseInt(parts[3]).val ELSE 1
    IN  {i \in 0..(len - 1) : i >= start /\ i < end /\ (i - start) % step = 0}

\* the indices the selector selected from its last input
SelectedIndices ==
    {selector.last.selected.indices[k] : k \in 1..Len(selector.last.selected.indices)}

\* the selector has handled a non-empty array
SelectedFromArray ==
    /\ kind = "array-select" /\ selector.handled
    /\ selector.last.in.isArray /\ selector.last.in.length >= 1

\* C25: for a non-empty array and a selection start:end or start:end:step
\* with step >= 1, the indices selected are those of the Python slice
\* a[start:end:step], each once
RangeSemantics ==
    (SelectedFromArray /\ IsRangeSelection(selector.selection)) =>
        /\ SelectedIndices = PySlice(selector.selection, selector.last.in.length)
        /\ Len(selector.last.selected.indices) = Cardinality(SelectedIndices)

\* the selection is a list of integers separated by commas
IsIndexList(sel) ==
    /\ Includes(sel, ",")
    /\ \A k \in 1..Len(Split(sel, ",")) : IsSingleIndex(Split(sel, ",")[k])

\* the selection is written as an index, a list of indices or a range
IsValidPattern(sel) == IsSingleIndex(sel) \/ IsIndexList(sel) \/ IsRangeSelection(sel)

\* the selection, as it is written, matches no element of a list of length len
MatchesNothing(sel, len) ==
    IF IsRangeSelection(sel) THEN PySlice(sel, len) = {}
    ELSE \A k \in 1..Len(Split(sel, ",")) :
            LET index == ParseInt(Split(sel, ",")[k]).val
            IN  ~(NormalizeIndex(index, len) \in 0..(len - 1))

\* C26: when a valid selection matches no element of a non-empty array, the
\* selector sends one message, and it carries the empty array
EmptySelectionOutput ==
    (/\ SelectedFromArray
     /\ IsValidPattern(selector.selection)
     /\ MatchesNothing(selector.selection, selector.last.in.length)) =>
        selector.last.sent = <<[asArray |-> TRUE, items |-> <<>>]>>

----------------------------------------------------------------------------
\* Properties of the detector

\* the number of samples at the end of the history that were all at or over
\* the threshold
RECURSIVE TrailingOver(_)
TrailingOver(samples) ==
    IF samples # <<>> /\ samples[Len(samples)]
    THEN 1 + TrailingOver(SubSeq(samples, 1, Len(samples) - 1))
    ELSE 0

\* the detector has taken a sample
Sampled == kind = "block-detect" /\ Len(detector.samples) > 0

\* C27: an alert is emitted at a sample only if that sample and the
\* consecutive - 1 samples before it were all at or over the threshold, and
\* two alerts are never less than the cooldown apart
AlertDiscipline ==
    Sampled =>
        /\ detector.alerted => TrailingOver(detector.samples) >= detector.consecutive
        /\ \A a, b \in detector.alerts : a < b => b - a >= detector.cooldownMs

\* two alerts were emitted, of a detector that wants several samples in a row
AlertDiscipline_Witness ==
    /\ Sampled /\ detector.alerted
    /\ detector.consecutive >= 2
    /\ Cardinality(detector.alerts) >= 2

\* the samples reached the count again while the cooldown ran: no alert
AlertDiscipline_WitnessCooldown ==
    /\ Sampled /\ ~detector.alerted
    /\ detector.alerts # {}
    /\ TrailingOver(detector.samples) >= 2 * detector.consecutive
    /\ detector.overThresholdCount = 0

\* C28: after a sample over the threshold that is not yet the last of
\* `consecutive` in a row the status is a yellow ring; the status is red only
\* when `consecutive` samples in a row were over it; and it is green after a
\* sample within the threshold
StatusMeaning ==
    Sampled =>
        LET over == detector.samples[Len(detector.samples)]
            run == TrailingOver(detector.samples)
        IN  /\ (over /\ run < detector.consecutive) =>
                  detector.status = [fill |-> "yellow", shape |-> "ring"]
            /\ detector.status.fill = "red" => run >= detector.consecutive
            /\ ~over => detector.status.fill = "green"

----------------------------------------------------------------------------
\* Properties of the saver

\* the handlers that have written their file
Written == {id \in 1..MaxSaves : saver.handlers[id].pc = "done"}

\* the path a handler wrote to
WrittenPath(id) == <<saver.handlers[id].name, saver.handlers[id].n>>

\* C29: with overwrite protection enabled no handler writes to a path that
\* exists when it writes, and the handlers that wrote did so to distinct paths
OverwriteProtection ==
    (kind = "save-file" /\ saver.overwriteEnabled) =>
        /\ \A id \in Written : ~saver.handlers[id].clobbered
        /\ \A i, j \in Written : i # j => WrittenPath(i) # WrittenPath(j)

----------------------------------------------------------------------------
\* Properties of the collector's timer

\* the step emits on output 2
TimeoutEmission ==
    /\ kind = "array-out"
    /\ Len(sent') = Len(sent) + 1
    /\ sent'[Len(sent')].out = 2

\* C30: a timeout emission happens only while a cycle is collecting, by the
\* timer that the first message of that cycle armed, which is then gone; it
\* ends that cycle, and the positions it reports were accepted in that cycle
TimeoutOwnCycle ==
    [][TimeoutEmission =>
          LET emitted == sent'[Len(sent')]
          IN  /\ isCollecting /\ ~isCollecting'
              /\ \E t \in timers \ timers' :
                    /\ t.id = timeoutHandle
                    /\ t.due = collectionStartTime + timeout
              /\ timers' = {}
              /\ emitted.cycle = cycle
              /\ \A i \in 1..Len(emitted.meta.collectedPositions) :
                    Key(emitted.meta.collectedPositions[i]) \in DOMAIN accepted]_vars

----------------------------------------------------------------------------
\* Properties of the collector's state

\* C31: between handlers, isCollecting is true exactly when a timer handle is
\* held, and a collector that is not collecting has an empty slot map and no
\* start time
StateCoupling ==
    kind = "array-out" =>
        /\ isCollecting <=> timeoutHandle # null
        /\ ~isCollecting =>
              /\ collection = EmptyCollection
              /\ collectionStartTime = null

\* a cycle has timed out by its timer and the collector is Idle again
StateCoupling_Witness ==
    /\ kind = "array-out" /\ ~closed
    /\ ~isCollecting /\ timeoutHandle = null
    /\ collection = EmptyCollection /\ collectionStartTime = null
    /\ cycle >= 1
    /\ Len(sent) >= 1 /\ sent[Len(sent)].out = 2

\* a cycle is collecting and holds its handle
StateCoupling_WitnessCollecting ==
    /\ kind = "array-out"
    /\ isCollecting /\ timeoutHandle # null
    /\ collection # EmptyCollection /\ collectionStartTime # null

----------------------------------------------------------------------------
\* Properties of the queue's input handler

\* the messages held in the queue
Queued(queue) == {queue[i].msg : i \in 1..Len(queue)}

\* C32: with both bounds enforced, a message that arrives at a queue that is
\* full only by entries that have expired is not dropped for overflow: the
\* expired entries go to output 2 for timeout and the message is queued, or
\* sent on output 1
PruneBeforeOverflow ==
    [][(/\ Arrival
        /\ CapacityEnforced /\ AgeEnforced
        /\ Len(state.queue) >= maxQueueSize
        /\ Len(Unexpired(state.queue)) < maxQueueSize)
       => (/\ \A i \in 1..Len(Added) :
                 Added[i].msg = received' => Added[i].out = 1
           /\ \/ received' \in Queued(state'.queue)
              \/ \E i \in 1..Len(Added) : Added[i].msg = received' /\ Added[i].out = 1
           /\ \A e \in Queued(state.queue) \ Queued(Unexpired(state.queue)) :
                 \E i \in 1..Len(Added) :
                    /\ Added[i].msg = e
                    /\ Added[i].out = 2
                    /\ Added[i].meta.queueDropReason = "timeout")]_vars

\* a message has just arrived at a full queue whose oldest entry had expired:
\* that entry was sent on output 2 in the same instant and the message is
\* queued. No timer was due, so it is the input handler that pruned
PruneBeforeOverflow_Witness ==
    /\ kind = "queue" /\ CapacityEnforced /\ AgeEnforced
    /\ Len(state.queue) = maxQueueSize
    /\ state.queue[Len(state.queue)].enqueuedAt = now
    /\ state.queue[Len(state.queue)].msg = received
    /\ Len(queueSent) >= 1
    /\ queueSent[Len(queueSent)].out = 2
    /\ queueSent[Len(queueSent)].meta.queueDropReason = "timeout"
    /\ queueSent[Len(queueSent)].at = now
    /\ state.lastSent # 0 /\ now < state.lastSent + intervalMs

\* the messages sent on output 2
Output2 == SelectSeq(queueSent, LAMBDA m : m.out = 2)

\* C33: every message received is in exactly one place: sent once on output 1,
\* sent once on output 2, or held once in the queue, so that received = sent on
\* output 1 + sent on output 2 + queued while the node is open; the messages
\* held at close are discarded: the queue is emptied and nothing is sent at or
\* after close
Conservation ==
    /\ [](kind = "queue" =>
            /\ \A i, j \in 1..Len(queueSent) :
                  i # j => queueSent[i].msg # queueSent[j].msg
            /\ \A i, j \in 1..Len(state.queue) :
                  i # j => state.queue[i].msg # state.queue[j].msg
            /\ Range(Msgs(queueSent)) \cap Queued(state.queue) = {}
            /\ Range(Msgs(queueSent)) \cup Queued(state.queue) \subseteq 1..received
            /\ ~closed =>
                  received = Len(Output1) + Len(Output2) + Len(state.queue)
            /\ closed => state.queue = <<>>)
    /\ [][(kind = "queue" /\ closed') =>
            /\ queueSent' = queueSent
            /\ state'.queue = <<>>]_vars

\* four messages were received: one was sent on output 1, one dropped for
\* overflow, one evicted for timeout, and one is queued
Conservation_Witness ==
    /\ kind = "queue" /\ ~closed
    /\ received = 4
    /\ Len(Output1) = 1 /\ Len(OverflowDrops) = 1 /\ Len(TimeoutDrops) = 1
    /\ Len(state.queue) = 1

\* the node was closed while it held messages: they were sent nowhere
Conservation_WitnessClose ==
    /\ kind = "queue" /\ closed
    /\ received - Len(queueSent) >= 2
    /\ state.queue = <<>>

----------------------------------------------------------------------------
\* Liveness of the queue

\* C34: when the timers armed fire, the queue does not stay non-empty: while it
\* holds an entry the timer of its handle is pending, it is empty again and
\* again, and while the node is open every message received is queued or was
\* sent on one of the outputs, so a message queued is sent by the time the
\* queue is empty unless the node was closed
QueueLiveness ==
    /\ [](kind = "queue" =>
            /\ state.queue # <<>> =>
                  \E t \in pendingSends : t.id = state.timer
            /\ ~closed =>
                  Range(Msgs(queueSent)) \cup Queued(state.queue) = 1..received)
    /\ []<>(kind = "queue" /\ state.queue = <<>>)

\* the timer has sent a message that waited for the interval, and evicted one
\* that waited beyond the timeout: the queue is empty and the node open
QueueLiveness_Witness ==
    /\ kind = "queue" /\ ~closed
    /\ state.queue = <<>> /\ pendingSends = {}
    /\ Len(Output1) >= 2 /\ Output1[2].at > Output1[1].at
    /\ \E i \in 1..Len(TimeoutDrops) : TimeoutDrops[i].at > state.lastSent

----------------------------------------------------------------------------
\* Liveness of the collector

\* C35: when the timer armed fires, a collector that is collecting is idle
\* again later, also when placing the timeout message fails in the callback,
\* and it is never collecting without the timer of its handle pending
CollectorLiveness ==
    /\ []((kind = "array-out" /\ isCollecting) =>
             \E t \in timers : t.id = timeoutHandle)
    /\ []<>(kind = "array-out" /\ ~isCollecting)

----------------------------------------------------------------------------
\* Properties of the queue without an interval

----------------------------------------------------------------------------
\* Properties of the queue's rate limit

\* C37: lastSent changes only in a step that sends a message on output 1, to
\* the time of that emission; a step that sends on output 2 only, and close,
\* leave it as it was. So a pending timer is due no later than lastSent +
\* interval, and two emissions on output 1 are at least the interval apart
LastSentFrame ==
    /\ [][kind = "queue" =>
            LET emits == \E i \in 1..Len(Added) : Added[i].out = 1
            IN  /\ emits => state'.lastSent = now
                /\ ~emits => state'.lastSent = state.lastSent]_vars
    /\ [](kind = "queue" =>
            /\ \A t \in pendingSends :
                  t.due <= Max(now, state.lastSent + intervalMs)
            /\ \A i \in 1..(Len(Output1) - 1) :
                  Output1[i + 1].at - Output1[i].at >= intervalMs
            /\ state.lastSent = (IF Output1 = <<>> THEN 0
                                 ELSE Output1[Len(Output1)].at))

\* a message was dropped between two emissions, and the second emission came
\* one interval after the first
LastSentFrame_Witness ==
    /\ kind = "queue"
    /\ Len(Output1) >= 2
    /\ Output1[2].at = Output1[1].at + intervalMs
    /\ \E i \in 1..Len(Output2) :
          Output1[1].at < Output2[i].at /\ Output2[i].at < Output1[2].at

\* the node was closed after an emission: lastSent is the time of that emission
LastSentFrame_WitnessClose ==
    /\ kind = "queue" /\ closed
    /\ Len(Output1) >= 1
    /\ state.lastSent = Output1[Len(Output1)].at
    /\ now > state.lastSent

----------------------------------------------------------------------------
\* Properties of the queue's bounds

\* C38: with a capacity K enforced the queue never holds more than K entries
\* and every overflow drop reports queueSize = queueMaxSize = K; every
\* timeout eviction reports the timeout of the node and a queuedDuration of
\* at least that
CapacityAndDropMeta ==
    kind = "queue" =>
        /\ CapacityEnforced => Len(state.queue) <= maxQueueSize
        /\ \A i \in 1..Len(queueSent) :
              LET m == queueSent[i]
              IN  /\ (m.out = 2 /\ m.meta.queueDropReason = "overflow") =>
                        /\ CapacityEnforced
                        /\ m.meta.queueSize = maxQueueSize
                        /\ m.meta.queueMaxSize = maxQueueSize
                  /\ (m.out = 2 /\ m.meta.queueDropReason = "timeout") =>
                        /\ AgeEnforced
                        /\ m.meta.queueTimeout = timeoutMs
                        /\ m.meta.queuedDuration >= m.meta.queueTimeout

\* a queue of capacity 2 has dropped a message for overflow and evicted one
\* that had waited longer than the timeout
CapacityAndDropMeta_Witness ==
    /\ kind = "queue" /\ CapacityEnforced /\ maxQueueSize = 2
    /\ \E i \in 1..Len(OverflowDrops) : OverflowDrops[i].meta.queueSize = 2
    /\ \E i \in 1..Len(TimeoutDrops) :
          TimeoutDrops[i].meta.queuedDuration > TimeoutDrops[i].meta.queueTimeout

====
